---- MODULE Spec2Model ----
(***************************************************************************)
(* The realtime registry (RealtimeAPI) and the record mutation handlers    *)
(* (RecordsAPI, BatchAPI) of pb-bun-server.                                *)
(*                                                                         *)
(* Two implementations of RealtimeAPI are in the repository: the Hono      *)
(* streaming one (src/api/realtime.ts) and the native ReadableStream one   *)
(* (handleNativeRequest).  impl selects which one a behaviour runs.        *)
(*                                                                         *)
(* JavaScript handlers are single threaded: the code between two awaits is *)
(* one atomic action; an await of a storage call ends the action that      *)
(* issued the statement.                                                   *)
(***************************************************************************)
EXTENDS Integers, Sequences, FiniteSets, TLC

\* ------------------------------------------------------------------ bounds
MaxClients == 2
MaxTime == 90000
MaxBroadcasts == 1
MaxHonoTime == 30000
MaxMatchBroadcasts == 2
MaxRequests == 3
MaxResolutions == 2
MaxHistory == 5

\* ------------------------------------------------------- program constants
HeartbeatPeriod == 30000
StaleTimeout == 60000

\* ------------------------------------------------------------------ strings
\* A string is the sequence of its characters, so that startsWith and
\* concatenation are computed as the code computes them.
posts == <<"p", "o", "s", "t", "s">>
users == <<"u", "s", "e", "r", "s">>
Collections == {posts, users}
RecordIds == {<<"x">>, <<"y">>}
Actions == {"create", "update", "delete"}

StartsWith(s, p) == Len(s) >= Len(p) /\ SubSeq(s, 1, Len(p)) = p

\* `${collection}/*` and `${collection}/${recordId}`
WildcardTopic(collection) == collection \o <<"/", "*">>
SpecificTopic(collection, recordId) == collection \o <<"/">> \o recordId

\* The subscription lists a client may post: a specific topic, a wildcard
\* topic with options, both topics of a record, a specific topic with options
\* next to another collection's topic (twice), and near misses of the topics.
SubscriptionInputs ==
  { << posts \o <<"/", "y">> >>,
    << posts \o <<"/", "*", "?", "o">> >>,
    << posts \o <<"/", "x">>, posts \o <<"/", "*">> >>,
    << posts \o <<"/", "x", "?", "o">>, users \o <<"/", "x">>, users \o <<"/", "x">> >>,
    << posts \o <<"/", "x", "y">>, posts \o <<"/", "*", "x">>, posts \o <<"/">> >> }

\* The (collection, action, record id) of the broadcastEvent calls.
BroadcastInputs ==
  { <<posts, "create", <<"x">> >>, <<users, "delete", <<"x">> >> }

\* new Set(subscriptions)
SetOf(list) == {list[i] : i \in DOMAIN list}

ClientIds == 1..MaxClients
Requests == 1..MaxRequests

\* The record ids generateId returns, in the order it returns them.  Record x
\* is in the table from the start; w is an id the clients make up.
GeneratedIds == << <<"y">>, <<"v">> >>

\* Request bodies.  A create body may carry id, created and updated; an
\* update body may carry id.  Timestamps are numbers, the clients' are negative.
CreateBodies ==
  { [title |-> "b"],
    [title |-> "c", id |-> <<"w">>, created |-> -1, updated |-> -2] }
UpdateBodies ==
  { [title |-> "b"],
    [title |-> "c", id |-> <<"w">>] }
NoRow == [found |-> FALSE]
NoRequest == [method |-> "none"]
NoBody == [f \in {} |-> ""]
NoQuery == [op |-> "none"]
NoAnswer == [status |-> 0]
NoParse == [sql |-> <<"-">>, values |-> << >>, done |-> FALSE]

VARIABLES
  impl,          \* "hono" or "native": which RealtimeAPI is deployed
  clients,       \* this.clients: clientId -> [subscriptions, lastActive]
  nextClient,    \* number of client ids generated so far
  chan,          \* per stream: "ok", "broken" (a write throws), "stalled" (writes are queued, never read)
  stream,        \* per stream: the frames accepted by the stream, in order
  connPc,        \* per stream: lines of the connect frame written by the Hono handler (4 = done)
  closed,        \* client ids removed by disconnectClient -> why ("cancel", "write", "stale", "destroy")
  now,           \* Date.now()
  sweepDue,      \* the interval timer has expired and its callback has not run yet
  heartbeatInterval, \* TRUE while the interval timer is set
  broadcasts,    \* number of broadcastEvent calls
  lastBroadcast, \* arguments of the last broadcastEvent call
  deadSince,     \* per stream: the time its channel stopped accepting or delivering writes (-1: alive)
  response,      \* last request of POST /api/realtime: its status, and the clientId and list it carried
  db,            \* the rows of table posts: id -> row
  generated,     \* number of record ids generateId has returned
  pc,            \* per request: the statement it awaits ("idle" before it arrives, "done" after its response)
  req,           \* per request: method, record id, body, batch items
  idx,           \* per batch request: the item being executed
  sel,           \* per request: result of its last SELECT
  resp,          \* per request: the response ([status, body]; a batch: the list of them)
  commits,       \* the writes that changed a row, in the order storage executed them
  sent,          \* the broadcastEvent calls of the handlers, in call order
  schema,        \* the schema cache: (collection, relation field) -> target collection
  tables,        \* the tables the reads select from: name -> [columns, rows]
  query,         \* the read request: List or GetOne, with its expand expression
  answer,        \* the response of the read
  batch,         \* the record batch the resolver works on, expansions included
  runs,          \* the outcome of each resolve call on the batch, in call order
  filterString,  \* the filter string handed to FilterParser.parse
  parsed,        \* what FilterParser.parse returned: [sql, values]
  sortString,    \* the sort string handed to SortParser.parse
  orderBy,       \* what SortParser.parse returned
  metadata,      \* the rows of table _collections: [id, name, fields]
  collections,   \* SchemaCache.collections: name -> [id, name, fields]
  collectionIdToName, \* SchemaCache.collectionIdToName: id -> name
  initialized,   \* SchemaCache.initialized
  loadPc,        \* "idle", or the call that awaits the SELECT of initialize: "initialize", "refresh"
  history        \* the calls of the schema cache that have returned or thrown, and the refresh calls, in order

registryVars == << impl, clients, nextClient, chan, stream, connPc, closed, now, sweepDue,
                   heartbeatInterval, broadcasts, lastBroadcast, deadSince, response >>

recordVars == << db, generated, pc, req, idx, sel, resp, commits, sent >>

expandVars == << schema, tables, query, answer, batch, runs >>

translateVars == << filterString, parsed, sortString, orderBy >>

catalogVars == << metadata, collections, collectionIdToName, initialized, loadPc, history >>

readVars == << expandVars, translateVars, catalogVars >>

vars == << impl, clients, nextClient, chan, stream, connPc, closed, now, sweepDue,
           heartbeatInterval, broadcasts, lastBroadcast, deadSince, response,
           db, generated, pc, req, idx, sel, resp, commits, sent,
           schema, tables, query, answer, batch, runs,
           filterString, parsed, sortString, orderBy,
           metadata, collections, collectionIdToName, initialized, loadPc, history >>

\* ------------------------------------------------------------------ frames
ConnectFrame == [kind |-> "connect", line |-> 0]
ConnectLine(n) == [kind |-> "connect", line |-> n]
HeartbeatFrame == [kind |-> "heartbeat"]
EventFrame(eventName, action, record) ==
  [kind |-> "event", event |-> eventName, action |-> action, record |-> record]

\* ---------------------------------------------------------------- registry
\* hasMatchingSubscription without the options check: exact topics only.
hasMatchingSubscription_exactOnly(subscriptions, topic) ==
  topic \in subscriptions

hasMatchingSubscription(subscriptions, topic) ==
  \/ topic \in subscriptions
  \/ \E sub \in subscriptions : StartsWith(sub, topic \o <<"?">>) \/ sub = topic

\* The clients broadcastEvent calls enqueue on, and the event name it uses.
shouldSend(client, collection, recordId) ==
  \/ hasMatchingSubscription(client.subscriptions, WildcardTopic(collection))
  \/ hasMatchingSubscription(client.subscriptions, SpecificTopic(collection, recordId))

\* The event name with the specific topic checked before the wildcard topic.
eventName_specificFirst(client, collection, recordId) ==
  IF hasMatchingSubscription(client.subscriptions, SpecificTopic(collection, recordId))
  THEN SpecificTopic(collection, recordId)
  ELSE WildcardTopic(collection)

eventName(client, collection, recordId) ==
  IF hasMatchingSubscription(client.subscriptions, WildcardTopic(collection))
  THEN WildcardTopic(collection)
  ELSE SpecificTopic(collection, recordId)

\* controller.enqueue throws (native) / stream.write throws inside writeToClient (hono)
WriteThrows(c) == chan[c] = "broken"

\* closed, with the clients of ids removed for a reason.
Closing(ids, why) ==
  [c \in DOMAIN closed \cup ids |-> IF c \in DOMAIN closed THEN closed[c] ELSE why]

\* broadcastEvent without its try/catch: the first throwing write ends the
\* loop, the entries after it (in insertion order) are not visited.
broadcastEvent_abortOnThrow(collection, action, record) ==
  LET sendTo == {c \in DOMAIN clients : shouldSend(clients[c], collection, record.id)}
      failed == {c \in sendTo : WriteThrows(c)}
      reached == {c \in sendTo : \A f \in failed : c < f}
  IN /\ clients' = [c \in DOMAIN clients |->
                      IF c \in reached
                      THEN [clients[c] EXCEPT !.lastActive = now]
                      ELSE clients[c]]
     /\ stream' = [c \in ClientIds |->
                      IF c \in reached
                      THEN Append(stream[c],
                                  EventFrame(eventName(clients[c], collection, record.id),
                                             action, record))
                      ELSE stream[c]]
     /\ closed' = closed
     /\ broadcasts' = broadcasts + 1
     /\ lastBroadcast' = [collection |-> collection, action |-> action, record |-> record]

\* broadcastEvent(collection, action, record): one synchronous loop over the
\* registry.  A throwing write ends in disconnectClient for that client (in
\* the catch of broadcastEvent, or in the catch of writeToClient); the loop
\* goes on with the next entry.
broadcastEvent(collection, action, record) ==
  LET sendTo == {c \in DOMAIN clients : shouldSend(clients[c], collection, record.id)}
      failed == {c \in sendTo : WriteThrows(c)}
  IN /\ clients' = [c \in DOMAIN clients \ failed |->
                      IF c \in sendTo
                      THEN [clients[c] EXCEPT !.lastActive = now]
                      ELSE clients[c]]
     /\ stream' = [c \in ClientIds |->
                      IF c \in sendTo \ failed
                      THEN Append(stream[c],
                                  EventFrame(eventName(clients[c], collection, record.id),
                                             action, record))
                      ELSE stream[c]]
     /\ closed' = Closing(failed, "write")
     /\ broadcasts' = broadcasts + 1
     /\ lastBroadcast' = [collection |-> collection, action |-> action, record |-> record]

\* ------------------------------------------------------------------ actions
\* Neither translator has been called.
NoTranslation ==
  /\ filterString = << >>
  /\ parsed = NoParse
  /\ sortString = << >>
  /\ orderBy = NoParse

\* The schema cache as constructed, over an empty table _collections.
NoCatalog ==
  /\ metadata = << >>
  /\ collections = << >>
  /\ collectionIdToName = << >>
  /\ initialized = FALSE
  /\ loadPc = "idle"
  /\ history = << >>

\* No read is under way.
NoRead ==
  /\ schema = << >>
  /\ tables = << >>
  /\ query = NoQuery
  /\ answer = NoAnswer
  /\ batch = << >>
  /\ runs = << >>
  /\ NoTranslation
  /\ NoCatalog

\* The state after construction, the connection table aside.
InitRest ==
  /\ chan = [c \in ClientIds |-> "ok"]
  /\ closed = << >>
  /\ now = 0
  /\ sweepDue = FALSE
  /\ heartbeatInterval = TRUE
  /\ broadcasts = 0
  /\ lastBroadcast = [collection |-> << >>, action |-> "", record |-> [id |-> << >>]]
  /\ deadSince = [c \in ClientIds |-> -1]
  /\ response = [status |-> 0, clientId |-> 0, subscriptions |-> << >>]
  /\ db = [i \in {<<"x">>} |-> [id |-> i, created |-> 0, updated |-> 0, title |-> "a"]]
  /\ generated = 0
  /\ pc = [r \in Requests |-> "idle"]
  /\ req = [r \in Requests |-> NoRequest]
  /\ idx = [r \in Requests |-> 0]
  /\ sel = [r \in Requests |-> NoRow]
  /\ resp = [r \in Requests |-> [status |-> 0, body |-> << >>]]
  /\ commits = << >>
  /\ sent = << >>

Init ==
  /\ impl \in {"hono", "native"}
  /\ clients = << >>
  /\ nextClient = 0
  /\ stream = [c \in ClientIds |-> << >>]
  /\ connPc = [c \in ClientIds |-> 0]
  /\ InitRest
  /\ NoRead

\* GET /api/realtime handing out the lowest id that is not in the registry,
\* so that the id of a closed connection is given out again.
OpenConnection_reuse ==
  /\ \E k \in ClientIds : k \notin DOMAIN clients
  /\ LET c == CHOOSE k \in ClientIds :
                 k \notin DOMAIN clients /\ \A j \in ClientIds : j < k => j \in DOMAIN clients
     IN /\ nextClient' = IF c > nextClient THEN c ELSE nextClient
        /\ clients' = [k \in DOMAIN clients \cup {c} |->
                         IF k = c THEN [subscriptions |-> {}, lastActive |-> now]
                         ELSE clients[k]]
        /\ stream' = [stream EXCEPT ![c] = Append(@, ConnectFrame)]
        /\ connPc' = [connPc EXCEPT ![c] = 4]
  /\ UNCHANGED << recordVars, readVars >>
  /\ UNCHANGED << impl, chan, closed, now, sweepDue, heartbeatInterval, broadcasts,
                  lastBroadcast, deadSince, response >>

\* GET /api/realtime.  Native: start() registers the client and enqueues the
\* whole connect frame.  Hono: the callback registers the client and writes
\* the first line; the other three lines follow, each after an await.
OpenConnection ==
  /\ nextClient < MaxClients
  /\ LET c == nextClient + 1 IN
     /\ nextClient' = c
     /\ clients' = [k \in DOMAIN clients \cup {c} |->
                      IF k = c THEN [subscriptions |-> {}, lastActive |-> now]
                      ELSE clients[k]]
     /\ IF impl = "native"
        THEN /\ stream' = [stream EXCEPT ![c] = Append(@, ConnectFrame)]
             /\ connPc' = [connPc EXCEPT ![c] = 4]
        ELSE /\ stream' = [stream EXCEPT ![c] = Append(@, ConnectLine(1))]
             /\ connPc' = [connPc EXCEPT ![c] = 1]
  /\ UNCHANGED << recordVars, readVars >>
  /\ UNCHANGED << impl, chan, closed, now, sweepDue, heartbeatInterval, broadcasts,
                  lastBroadcast, deadSince, response >>

\* Hono: the continuation after `await stream.writeln(...)` writes the next line.
OpenStep(c) ==
  /\ impl = "hono"
  /\ connPc[c] \in 1..3
  /\ IF chan[c] = "broken"
     THEN /\ connPc' = [connPc EXCEPT ![c] = 4]
          /\ UNCHANGED stream
     ELSE /\ connPc' = [connPc EXCEPT ![c] = @ + 1]
          /\ stream' = [stream EXCEPT ![c] = Append(@, ConnectLine(connPc[c] + 1))]
  /\ UNCHANGED << recordVars, readVars >>
  /\ UNCHANGED << impl, clients, nextClient, chan, closed, now, sweepDue,
                  heartbeatInterval, broadcasts, lastBroadcast, deadSince, response >>

\* disconnectClient(clientId) for every id of a set: the entries leave the map.
disconnectClient(ids) ==
  [c \in DOMAIN clients \ ids |-> clients[c]]

\* POST /api/realtime merging the posted topics into the set instead of replacing it.
UpdateSubscriptions_merge(clientId, isArray, subscriptions) ==
  /\ IF clientId = 0 \/ ~isArray
     THEN /\ response' = [status |-> 400, clientId |-> 0, subscriptions |-> << >>]
          /\ UNCHANGED clients
     ELSE IF clientId \notin DOMAIN clients
     THEN /\ response' = [status |-> 404, clientId |-> clientId, subscriptions |-> << >>]
          /\ UNCHANGED clients
     ELSE /\ clients' = [clients EXCEPT ![clientId] =
                           [subscriptions |-> @.subscriptions \cup SetOf(subscriptions),
                            lastActive |-> now]]
          /\ response' = [status |-> 204, clientId |-> clientId, subscriptions |-> subscriptions]
  /\ UNCHANGED << recordVars, readVars >>
  /\ UNCHANGED << impl, nextClient, chan, stream, connPc, closed, now, sweepDue,
                  heartbeatInterval, broadcasts, lastBroadcast, deadSince >>

\* POST /api/realtime with body {clientId, subscriptions}.  clientId 0 stands
\* for a missing or empty clientId; isArray is Array.isArray(subscriptions).
UpdateSubscriptions(clientId, isArray, subscriptions) ==
  /\ IF clientId = 0
     THEN /\ response' = [status |-> 400, clientId |-> 0, subscriptions |-> << >>]
          /\ UNCHANGED clients
     ELSE IF ~isArray
     THEN /\ response' = [status |-> 400, clientId |-> 0, subscriptions |-> << >>]
          /\ UNCHANGED clients
     ELSE IF clientId \notin DOMAIN clients
     THEN /\ response' = [status |-> 404, clientId |-> clientId, subscriptions |-> << >>]
          /\ UNCHANGED clients
     ELSE /\ clients' = [clients EXCEPT ![clientId] =
                           [subscriptions |-> SetOf(subscriptions), lastActive |-> now]]
          /\ response' = [status |-> 204, clientId |-> clientId, subscriptions |-> subscriptions]
  /\ UNCHANGED << recordVars, readVars >>
  /\ UNCHANGED << impl, nextClient, chan, stream, connPc, closed, now, sweepDue,
                  heartbeatInterval, broadcasts, lastBroadcast, deadSince >>

\* A call of the public method broadcastEvent.
Broadcast(maxBroadcasts, collection, action, recordId) ==
  /\ broadcasts < maxBroadcasts
  /\ broadcastEvent(collection, action, [id |-> recordId])
  /\ UNCHANGED << recordVars, readVars >>
  /\ UNCHANGED << impl, nextClient, chan, connPc, now, sweepDue, heartbeatInterval,
                  deadSince, response >>

\* Whether the heartbeat callback stores `now` in lastActive after the write.
HeartbeatRefreshes == impl = "hono"

\* The setInterval callback of startHeartbeat.
Sweep ==
  /\ heartbeatInterval
  /\ sweepDue
  /\ LET stale == {c \in DOMAIN clients : now - clients[c].lastActive > StaleTimeout}
         failed == {c \in DOMAIN clients \ stale : WriteThrows(c)}
         kept == DOMAIN clients \ (stale \cup failed)
     IN /\ clients' = [c \in kept |->
                         IF HeartbeatRefreshes
                         THEN [clients[c] EXCEPT !.lastActive = now]
                         ELSE clients[c]]
        /\ stream' = [c \in ClientIds |->
                         IF c \in kept THEN Append(stream[c], HeartbeatFrame) ELSE stream[c]]
        /\ closed' = [c \in DOMAIN closed \cup stale \cup failed |->
                        IF c \in DOMAIN closed THEN closed[c]
                        ELSE IF c \in stale THEN "stale" ELSE "write"]
  /\ sweepDue' = FALSE
  /\ UNCHANGED << recordVars, readVars >>
  /\ UNCHANGED << impl, nextClient, chan, connPc, now, heartbeatInterval, broadcasts,
                  lastBroadcast, deadSince, response >>

\* One timer period passes; a set interval timer expires.
Tick(maxTime) ==
  /\ ~sweepDue
  /\ now + HeartbeatPeriod <= maxTime
  /\ now' = now + HeartbeatPeriod
  /\ sweepDue' = heartbeatInterval
  /\ UNCHANGED << recordVars, readVars >>
  /\ UNCHANGED << impl, clients, nextClient, chan, stream, connPc, closed,
                  heartbeatInterval, broadcasts, lastBroadcast, deadSince, response >>

\* The transport reports the client gone: cancel() of the ReadableStream
\* (native) or stream.onAbort (hono); both call disconnectClient.
Cancel(c) ==
  /\ c \in DOMAIN clients
  /\ clients' = disconnectClient({c})
  /\ closed' = Closing({c}, "cancel")
  /\ chan' = [chan EXCEPT ![c] = "broken"]
  /\ deadSince' = [deadSince EXCEPT ![c] = -1]
  /\ UNCHANGED << recordVars, readVars >>
  /\ UNCHANGED << impl, nextClient, stream, connPc, now, sweepDue, heartbeatInterval,
                  broadcasts, lastBroadcast, response >>

\* The channel of a registered client dies without a cancel/abort signal.
ChannelFail(c, mode) ==
  /\ c \in DOMAIN clients
  /\ chan[c] = "ok"
  /\ chan' = [chan EXCEPT ![c] = mode]
  /\ deadSince' = [deadSince EXCEPT ![c] = now]
  /\ UNCHANGED << recordVars, readVars >>
  /\ UNCHANGED << impl, clients, nextClient, stream, connPc, closed, now, sweepDue,
                  heartbeatInterval, broadcasts, lastBroadcast, response >>

\* destroy() without its clearInterval: the connections are closed, the timer
\* stays set.
Destroy_timerKept ==
  /\ heartbeatInterval \/ DOMAIN clients # {}
  /\ clients' = disconnectClient(DOMAIN clients)
  /\ closed' = Closing(DOMAIN clients, "destroy")
  /\ UNCHANGED << recordVars, readVars >>
  /\ UNCHANGED << impl, nextClient, chan, stream, connPc, now, sweepDue, heartbeatInterval,
                  broadcasts, lastBroadcast, deadSince, response >>

\* destroy(): clearInterval, then disconnectClient for every key.
Destroy ==
  /\ heartbeatInterval \/ DOMAIN clients # {}
  /\ heartbeatInterval' = FALSE
  /\ sweepDue' = FALSE
  /\ clients' = disconnectClient(DOMAIN clients)
  /\ closed' = Closing(DOMAIN clients, "destroy")
  /\ UNCHANGED << recordVars, readVars >>
  /\ UNCHANGED << impl, nextClient, chan, stream, connPc, now, broadcasts,
                  lastBroadcast, deadSince, response >>

\* ------------------------------------------------------------------ records
\* The handlers of /api/collections/posts/records and of /api/batch.  A
\* statement is executed by storage in the step that awaits it; the step after
\* it is the continuation of that await, which runs up to the next awaited
\* statement or to the response.  Continuations of different requests
\* interleave freely.
Found(row) == [found |-> TRUE, row |-> row]

\* { ...a, ...b }: the keys of both, the values of b where both have the key
Spread(a, b) ==
  [f \in DOMAIN a \cup DOMAIN b |-> IF f \in DOMAIN b THEN b[f] ELSE a[f]]

\* delete rec[field]
Without(rec, field) == [f \in DOMAIN rec \ {field} |-> rec[f]]

\* record = { id: newId, created: now, updated: now, ...body }
NewRecord(newId, body) ==
  Spread([id |-> newId, created |-> now, updated |-> now], body)

\* updates = { ...body, updated: getCurrentTimestamp() }
Updates(body) == Spread(body, [updated |-> now])

\* SELECT * FROM posts WHERE id = ${id}, results[0]
SelectById(id) == IF id \in DOMAIN db THEN Found(db[id]) ELSE NoRow

\* record.collectionName = collection
WithCollectionName(row, collection) ==
  Spread(row, [collectionName |-> collection])

Commit(r, action, id) == Append(commits, [req |-> r, action |-> action, id |-> id])

\* INSERT fails on the primary key
InsertThrows(record) == record.id \in DOMAIN db

\* INSERT INTO posts ${sql(record)}
InsertRow(r, record) ==
  /\ db' = [i \in DOMAIN db \cup {record.id} |-> IF i = record.id THEN record ELSE db[i]]
  /\ commits' = Commit(r, "create", record.id)

\* UPDATE fails on the primary key: SET id = an id another row has
UpdateThrows(id, updates) ==
  /\ id \in DOMAIN db
  /\ "id" \in DOMAIN updates
  /\ updates.id # id
  /\ updates.id \in DOMAIN db

\* An UPDATE that inserts the row when no row has the id.
UpdateRow_upsert(r, id, updates) ==
  LET old == IF id \in DOMAIN db THEN db[id] ELSE [id |-> id, created |-> now]
      row == Spread(old, updates)
  IN /\ db' = [i \in (DOMAIN db \ {id}) \cup {row.id} |->
                  IF i = row.id THEN row ELSE db[i]]
     /\ commits' = Commit(r, "update", id)

\* UPDATE posts SET ${sql(updates)} WHERE id = ${id}
UpdateRow(r, id, updates) ==
  IF id \in DOMAIN db
  THEN LET row == Spread(db[id], updates) IN
       /\ db' = [i \in (DOMAIN db \ {id}) \cup {row.id} |->
                   IF i = row.id THEN row ELSE db[i]]
       /\ commits' = Commit(r, "update", id)
  ELSE UNCHANGED << db, commits >>

\* DELETE FROM posts WHERE id = ${id}
DeleteRow(r, id) ==
  IF id \in DOMAIN db
  THEN /\ db' = [i \in DOMAIN db \ {id} |-> db[i]]
       /\ commits' = Commit(r, "delete", id)
  ELSE UNCHANGED << db, commits >>

\* Request r arrives: its body has been read, its handler runs.
Arrive(r) == pc[r] = "idle" /\ \A q \in Requests : q < r => pc[q] # "idle"

At(r, method, at) == req[r].method = method /\ pc[r] = at

Goto(r, at) == pc' = [pc EXCEPT ![r] = at]

Request(method, id, body, items) ==
  [method |-> method, id |-> id, body |-> body, items |-> items]

Respond(r, status, body) == resp' = [resp EXCEPT ![r] = [status |-> status, body |-> body]]

\* this.realtimeAPI.broadcastEvent(collection, action, record) in a handler
Notify(r, action, record) ==
  /\ broadcastEvent(posts, action, record)
  /\ sent' = Append(sent, [req |-> r, action |-> action, record |-> record])
  /\ UNCHANGED << impl, nextClient, chan, connPc, now, sweepDue, heartbeatInterval,
                  deadSince, response >>

\* POST /:collection/records up to the INSERT
PostInsert(r, body) ==
  /\ Arrive(r)
  /\ generated < Len(GeneratedIds)
  /\ LET newId == GeneratedIds[generated + 1]
         record == NewRecord(newId, body)
     IN /\ generated' = generated + 1
        /\ req' = [req EXCEPT ![r] = Request("POST", newId, body, << >>)]
        /\ IF InsertThrows(record)
           THEN /\ Goto(r, "failed")
                /\ UNCHANGED << db, commits >>
           ELSE /\ Goto(r, "inserted")
                /\ InsertRow(r, record)
  /\ UNCHANGED << idx, sel, resp, sent >>
  /\ UNCHANGED registryVars
  /\ UNCHANGED readVars

\* SELECT * FROM posts WHERE id = ${newId}
PostSelect(r) ==
  /\ At(r, "POST", "inserted")
  /\ sel' = [sel EXCEPT ![r] = SelectById(req[r].id)]
  /\ Goto(r, "selected")
  /\ UNCHANGED << db, generated, req, idx, resp, commits, sent >>
  /\ UNCHANGED registryVars
  /\ UNCHANGED readVars

\* The catch answers 400: the INSERT threw, or
\* createdRecord.collectionName = collection threw on an empty result.
PostFinish(r) ==
  /\ req[r].method = "POST"
  /\ pc[r] \in {"selected", "failed"}
  /\ IF pc[r] = "selected" /\ sel[r].found
     THEN LET createdRecord == WithCollectionName(sel[r].row, posts) IN
          /\ Notify(r, "create", createdRecord)
          /\ Respond(r, 200, createdRecord)
     ELSE /\ Respond(r, 400, << >>)
          /\ UNCHANGED sent
          /\ UNCHANGED registryVars
  /\ Goto(r, "done")
  /\ UNCHANGED << db, generated, req, idx, sel, commits >>
  /\ UNCHANGED readVars

\* PATCH /:collection/records/:id up to the UPDATE
PatchUpdate(r, id, body) ==
  /\ Arrive(r)
  /\ req' = [req EXCEPT ![r] = Request("PATCH", id, body, << >>)]
  /\ IF UpdateThrows(id, Updates(body))
     THEN /\ Goto(r, "failed")
          /\ UNCHANGED << db, commits >>
     ELSE /\ Goto(r, "updated")
          /\ UpdateRow(r, id, Updates(body))
  /\ UNCHANGED << generated, idx, sel, resp, sent >>
  /\ UNCHANGED registryVars
  /\ UNCHANGED readVars

\* SELECT * FROM posts WHERE id = ${id}
PatchSelect(r) ==
  /\ At(r, "PATCH", "updated")
  /\ sel' = [sel EXCEPT ![r] = SelectById(req[r].id)]
  /\ Goto(r, "selected")
  /\ UNCHANGED << db, generated, req, idx, resp, commits, sent >>
  /\ UNCHANGED registryVars
  /\ UNCHANGED readVars

PatchFinish(r) ==
  /\ req[r].method = "PATCH"
  /\ pc[r] \in {"selected", "failed"}
  /\ IF pc[r] = "failed"
     THEN /\ Respond(r, 400, << >>)
          /\ UNCHANGED sent
          /\ UNCHANGED registryVars
     ELSE IF sel[r].found
     THEN LET updatedRecord == WithCollectionName(sel[r].row, posts) IN
          /\ Notify(r, "update", updatedRecord)
          /\ Respond(r, 200, updatedRecord)
     ELSE /\ Respond(r, 404, << >>)
          /\ UNCHANGED sent
          /\ UNCHANGED registryVars
  /\ Goto(r, "done")
  /\ UNCHANGED << db, generated, req, idx, sel, commits >>
  /\ UNCHANGED readVars

\* DELETE /:collection/records/:id up to the SELECT (realtimeAPI is set)
DeleteSelect(r, id) ==
  /\ Arrive(r)
  /\ req' = [req EXCEPT ![r] = Request("DELETE", id, NoBody, << >>)]
  /\ sel' = [sel EXCEPT ![r] = SelectById(id)]
  /\ Goto(r, "selected")
  /\ UNCHANGED << db, generated, idx, resp, commits, sent >>
  /\ UNCHANGED registryVars
  /\ UNCHANGED readVars

\* The DELETE handler going on without its DELETE statement.
DeleteDelete_skipped(r) ==
  /\ At(r, "DELETE", "selected")
  /\ Goto(r, "deleted")
  /\ UNCHANGED << db, generated, req, idx, sel, resp, commits, sent >>
  /\ UNCHANGED registryVars
  /\ UNCHANGED readVars

DeleteDelete(r) ==
  /\ At(r, "DELETE", "selected")
  /\ DeleteRow(r, req[r].id)
  /\ Goto(r, "deleted")
  /\ UNCHANGED << generated, req, idx, sel, resp, sent >>
  /\ UNCHANGED registryVars
  /\ UNCHANGED readVars

\* The DELETE handler answering 404 when its SELECT found no row.
DeleteFinish_notFound(r) ==
  /\ At(r, "DELETE", "deleted")
  /\ IF sel[r].found
     THEN /\ Notify(r, "delete", WithCollectionName(sel[r].row, posts))
          /\ Respond(r, 204, << >>)
     ELSE /\ Respond(r, 404, << >>)
          /\ UNCHANGED sent
          /\ UNCHANGED registryVars
  /\ Goto(r, "done")
  /\ UNCHANGED << db, generated, req, idx, sel, commits >>
  /\ UNCHANGED readVars

DeleteFinish(r) ==
  /\ At(r, "DELETE", "deleted")
  /\ IF sel[r].found
     THEN Notify(r, "delete", WithCollectionName(sel[r].row, posts))
     ELSE /\ UNCHANGED sent
          /\ UNCHANGED registryVars
  /\ Respond(r, 204, << >>)
  /\ Goto(r, "done")
  /\ UNCHANGED << db, generated, req, idx, sel, commits >>
  /\ UNCHANGED readVars

\* ------------------------------------------------------------------- batch
Item(method, id, body) == [method |-> method, id |-> id, body |-> body]

\* The id the statements of an item name: handleCreate's newId, or the url's.
ItemId(item) ==
  IF item.method = "POST" THEN GeneratedIds[generated + 1] ELSE item.id

CanExecute(item) == item.method = "POST" => generated < Len(GeneratedIds)

\* handleUpdate: updates = { ...body, updated }, delete updates.id
BatchUpdates(body) == Without(Updates(body), "id")

\* executeRequest throws: the method is none of the switch, or the first
\* statement fails.
ItemThrows(item) ==
  \/ item.method \notin {"POST", "PATCH", "DELETE"}
  \/ item.method = "POST" /\ InsertThrows(NewRecord(ItemId(item), item.body))
  \/ item.method = "PATCH" /\ UpdateThrows(item.id, BatchUpdates(item.body))

\* executeRequest up to the first statement of handleCreate / handleUpdate /
\* handleDelete, or to its throw
ExecuteItem(r, item) ==
  /\ CanExecute(item)
  /\ generated' = IF item.method = "POST" THEN generated + 1 ELSE generated
  /\ IF ItemThrows(item)
     THEN /\ Goto(r, "failed")
          /\ UNCHANGED << db, commits >>
     ELSE /\ Goto(r, "written")
          /\ IF item.method = "POST"
             THEN InsertRow(r, NewRecord(ItemId(item), item.body))
             ELSE IF item.method = "PATCH"
             THEN UpdateRow(r, item.id, BatchUpdates(item.body))
             ELSE DeleteRow(r, item.id)

\* POST /api/batch up to the first statement of the first item
BatchStart(r, items) ==
  /\ Arrive(r)
  /\ ExecuteItem(r, items[1])
  /\ req' = [req EXCEPT ![r] = Request("BATCH", ItemId(items[1]), << >>, items)]
  /\ idx' = [idx EXCEPT ![r] = 1]
  /\ UNCHANGED << sel, resp, sent >>
  /\ UNCHANGED registryVars
  /\ UNCHANGED readVars

\* handleCreate / handleUpdate: the SELECT after the write
BatchSelect(r) ==
  /\ At(r, "BATCH", "written")
  /\ req[r].items[idx[r]].method \in {"POST", "PATCH"}
  /\ sel' = [sel EXCEPT ![r] = SelectById(req[r].id)]
  /\ Goto(r, "selected")
  /\ UNCHANGED << db, generated, req, idx, resp, commits, sent >>
  /\ UNCHANGED registryVars
  /\ UNCHANGED readVars

\* The BatchResponse of the item at idx, its last statement having returned
\* or executeRequest having thrown (the catch of the loop: status 400).
ItemResponse(r) ==
  LET item == req[r].items[idx[r]] IN
  IF pc[r] = "failed" THEN [status |-> 400, body |-> << >>]
  ELSE IF item.method = "DELETE" THEN [status |-> 204, body |-> << >>]
  ELSE IF sel[r].found THEN [status |-> 200, body |-> WithCollectionName(sel[r].row, posts)]
  ELSE IF item.method = "POST" THEN [status |-> 400, body |-> << >>]
  ELSE [status |-> 404, body |-> << >>]

\* The batch loop ending at the first item that is answered with an error.
BatchNext_stopAtError(r) ==
  /\ req[r].method = "BATCH"
  /\ \/ pc[r] \in {"selected", "failed"}
     \/ pc[r] = "written" /\ req[r].items[idx[r]].method = "DELETE"
  /\ LET responses == Append(resp[r].body, ItemResponse(r)) IN
     IF idx[r] < Len(req[r].items) /\ ItemResponse(r).status < 400
     THEN LET item == req[r].items[idx[r] + 1] IN
          /\ ExecuteItem(r, item)
          /\ req' = [req EXCEPT ![r].id = ItemId(item)]
          /\ idx' = [idx EXCEPT ![r] = @ + 1]
          /\ Respond(r, 0, responses)
     ELSE /\ Respond(r, 200, responses)
          /\ Goto(r, "done")
          /\ UNCHANGED << db, generated, req, idx, commits >>
  /\ UNCHANGED << sel, sent >>
  /\ UNCHANGED registryVars
  /\ UNCHANGED readVars

\* responses.push(result), then the next item up to its first statement, or
\* c.json(responses)
BatchNext(r) ==
  /\ req[r].method = "BATCH"
  /\ \/ pc[r] \in {"selected", "failed"}
     \/ pc[r] = "written" /\ req[r].items[idx[r]].method = "DELETE"
  /\ LET responses == Append(resp[r].body, ItemResponse(r)) IN
     IF idx[r] < Len(req[r].items)
     THEN LET item == req[r].items[idx[r] + 1] IN
          /\ ExecuteItem(r, item)
          /\ req' = [req EXCEPT ![r].id = ItemId(item)]
          /\ idx' = [idx EXCEPT ![r] = @ + 1]
          /\ Respond(r, 0, responses)
     ELSE /\ Respond(r, 200, responses)
          /\ Goto(r, "done")
          /\ UNCHANGED << db, generated, req, idx, commits >>
  /\ UNCHANGED << sel, sent >>
  /\ UNCHANGED registryVars
  /\ UNCHANGED readVars

\* ------------------------------------------------------------------ expand
\* ExpandResolver over the schema cache, and the two reads of RecordsAPI that
\* call it.  A row is a function from column names to values.  A value is
\* [t, v]: a string is held as the pieces its commas separate ("u1,u2" is
\* <<"u1", "u2">>, "" is <<"">>), the JSON text of an array and a parsed
\* array as the list of their elements.  A record is [row, expand]; expand
\* maps a field to [t |-> "array" or "object", v |-> the list of records].
\* relatedMap hands the same object to every record that names it; the model
\* copies it, which gives the same JSON as long as the tables do not change.
idField == <<"i", "d">>
titleField == <<"t", "i", "t", "l", "e">>
nameField == <<"n", "a", "m", "e">>
authorIdField == <<"a", "u", "t", "h", "o", "r", "I", "d">>
authorField == <<"a", "u", "t", "h", "o", "r">>
tags == <<"t", "a", "g", "s">>
collectionNameField == <<"c", "o", "l", "l", "e", "c", "t", "i", "o", "n", "N", "a", "m", "e">>

Undefined == [t |-> "undefined", v |-> << >>]
Null == [t |-> "null", v |-> << >>]
Str(pieces) == [t |-> "string", v |-> pieces]
JsonText(ids) == [t |-> "json", v |-> ids]
Arr(ids) == [t |-> "array", v |-> ids]
\* What the create handler stores for a field value: an array as the text of
\* JSON.stringify, any other value as it is
Stored(value) == IF value.t = "array" THEN JsonText(value.v) ELSE value
NoExpand == << >>
NoSort == << >>
\* A rejection, with the batch as the calls before it have left it.
Throw(records) == [thrown |-> TRUE, records |-> records]
Ok(records) == [thrown |-> FALSE, records |-> records]
Rec(row) == [row |-> row, expand |-> NoExpand]

\* record[field]
Field(record, field) ==
  IF field \in DOMAIN record.row THEN record.row[field] ELSE Undefined

\* JavaScript truthiness of a value
Truthy(value) ==
  CASE value.t \in {"undefined", "null"} -> FALSE
    [] value.t = "string" -> value.v # <<"">>
    [] OTHER -> TRUE

NonEmptyPiece(p) == p # ""

parseRelationIds(value) ==
  IF ~Truthy(value) THEN << >>
  ELSE IF value.t = "array" THEN value.v
  ELSE IF value.t = "json" THEN value.v
  ELSE IF value.t = "string" THEN SelectSeq(value.v, NonEmptyPiece)
  ELSE << >>

\* The ids of the query, as strings.
extractForeignIds(records, field, type) ==
  UNION { IF ~Truthy(Field(records[i], field)) THEN {}
          ELSE IF type = "single" THEN {Field(records[i], field).v}
          ELSE {<<p>> : p \in SetOf(parseRelationIds(Field(records[i], field)))}
          : i \in DOMAIN records }

EndsWith(s, suffix) ==
  Len(s) >= Len(suffix) /\ SubSeq(s, Len(s) - Len(suffix) + 1, Len(s)) = suffix

\* s.slice(0, -n)
DropLast(s, n) == SubSeq(s, 1, Len(s) - n)

\* s.slice(n)
DropFirst(s, n) == SubSeq(s, n + 1, Len(s))

pluralize(word) ==
  CASE word = <<"p", "e", "r", "s", "o", "n">> -> <<"p", "e", "o", "p", "l", "e">>
    [] word = <<"c", "h", "i", "l", "d">> -> <<"c", "h", "i", "l", "d", "r", "e", "n">>
    [] word = <<"c", "a", "t", "e", "g", "o", "r", "y">>
         -> <<"c", "a", "t", "e", "g", "o", "r", "i", "e", "s">>
    [] OTHER ->
         IF EndsWith(word, <<"y">>) THEN DropLast(word, 1) \o <<"i", "e", "s">>
         ELSE IF \/ EndsWith(word, <<"s">>) \/ EndsWith(word, <<"x">>)
                 \/ EndsWith(word, <<"c", "h">>) \/ EndsWith(word, <<"s", "h">>)
              THEN word \o <<"e", "s">>
              ELSE word \o <<"s">>

\* baseName.replace(/^(pb_|fk_|rel_)/, '')
StripPrefix(baseName) ==
  IF StartsWith(baseName, <<"p", "b", "_">>) THEN DropFirst(baseName, 3)
  ELSE IF StartsWith(baseName, <<"f", "k", "_">>) THEN DropFirst(baseName, 3)
  ELSE IF StartsWith(baseName, <<"r", "e", "l", "_">>) THEN DropFirst(baseName, 4)
  ELSE baseName

\* SchemaCache.getRelationCollection: the target of a relation field, or null
getRelationCollection(collectionName, fieldName) ==
  IF <<collectionName, fieldName>> \in DOMAIN schema
  THEN schema[<<collectionName, fieldName>>]
  ELSE << >>

getRelationInfo(collection, field) ==
  LET relationCollection == getRelationCollection(collection, field) IN
  IF relationCollection # << >>
  THEN [collection |-> relationCollection, type |-> "multiple"]
  ELSE IF EndsWith(field, <<"_", "i", "d">>) \/ EndsWith(field, <<"I", "d">>)
  THEN LET baseName == IF EndsWith(field, <<"_", "i", "d">>)
                       THEN DropLast(field, 3) ELSE DropLast(field, 2)
       IN [collection |-> pluralize(StripPrefix(baseName)), type |-> "multiple"]
  ELSE [collection |-> field, type |-> "multiple"]

\* s.split(ch)
RECURSIVE Split(_, _)
Split(s, ch) ==
  IF \A i \in DOMAIN s : s[i] # ch THEN << s >>
  ELSE LET i == CHOOSE i \in DOMAIN s : s[i] = ch /\ \A j \in 1..(i - 1) : s[j] # ch
       IN << SubSeq(s, 1, i - 1) >> \o Split(SubSeq(s, i + 1, Len(s)), ch)

\* direction.toLowerCase(), over the letters of the directions
ToLowerCase(s) ==
  [i \in DOMAIN s |->
     CASE s[i] = "A" -> "a" [] s[i] = "C" -> "c" [] s[i] = "D" -> "d"
       [] s[i] = "E" -> "e" [] s[i] = "S" -> "s" [] OTHER -> s[i]]

\* const [field, direction] = sort.split(':')
SortColumn(sort) == Split(sort, ":")[1]
SortDescending(sort) ==
  LET parts == Split(sort, ":") IN
  Len(parts) >= 2 /\ ToLowerCase(parts[2]) = <<"d", "e", "s", "c">>

\* The order of the column values under ORDER BY: NULL first, then the
\* strings of the tables in byte order.
Collation ==
  << "", "a", "b", "k", "l", "m", "n", "p1", "p2", "p3", "t1", "t2", "u1", "u2" >>
Rank(value) ==
  IF value.t = "null" THEN 0
  ELSE CHOOSE k \in DOMAIN Collation : Collation[k] = value.v[1]

\* ORDER BY column ASC or DESC; rows of equal value keep the table's order
OrderBy(rows, column, descending) ==
  LET n == Len(rows)
      Key(k) == Rank(rows[k][column])
      Before(a, b) == IF Key(a) = Key(b) THEN a < b
                      ELSE IF descending THEN Key(a) > Key(b) ELSE Key(a) < Key(b)
      Position(k) == Cardinality({j \in 1..n : Before(j, k)}) + 1
  IN [p \in 1..n |-> rows[CHOOSE k \in 1..n : Position(k) = p]]

\* The SELECT of fetchRelatedRecords fails on a table or a sort column that
\* does not exist.
FetchThrows(collection, sort) ==
  \/ collection \notin DOMAIN tables
  \/ sort # NoSort /\ SortColumn(sort) \notin tables[collection].columns

\* SELECT * FROM collection WHERE id IN (ids): the rows, as fresh records
SelectByIds(collection, ids) ==
  { Rec(tables[collection].rows[k]) :
      k \in { j \in DOMAIN tables[collection].rows :
                tables[collection].rows[j][idField].v \in ids } }

\* const name = value; ...: the value is computed once and the rest of the
\* code reads it
Bind(value, Rest(_)) == CHOOSE result \in { Rest(name) : name \in {value} } : TRUE

\* The rows of the ids as the SELECT returns them: in the table's order,
\* or in the order of the sort expression.
fetchRelatedRecords(collection, ids, sort) ==
  LET Selected(row) == row[idField].v \in ids
      Ordered(rows) == IF sort # NoSort
                       THEN OrderBy(rows, SortColumn(sort), SortDescending(sort))
                       ELSE rows
      Records(ordered) == [k \in DOMAIN ordered |-> Rec(ordered[k])]
      Fetched(rows) == Bind(Ordered(rows), Records)
  IN Bind(SelectSeq(tables[collection].rows, Selected), Fetched)

\* relatedMap.has(id) and relatedMap.get(id)
Has(relatedRecords, id) == \E r \in relatedRecords : r.row[idField].v = id
Get(relatedRecords, id) == CHOOSE r \in relatedRecords : r.row[idField].v = id

\* The attach loop adding to the rows an earlier resolution has put under
\* the key, instead of replacing them.
SetExpand_merge(record, field, value) ==
  [record EXCEPT !.expand =
     [k \in DOMAIN record.expand \cup {field} |->
        IF k # field THEN record.expand[k]
        ELSE IF field \in DOMAIN record.expand
        THEN [t |-> value.t, v |-> record.expand[field].v \o value.v]
        ELSE value]]

\* record.expand = record.expand || {}; record.expand[field] = value
SetExpand(record, field, value) ==
  [record EXCEPT !.expand =
     [k \in DOMAIN record.expand \cup {field} |->
        IF k = field THEN value ELSE record.expand[k]]]

\* One round of the attach loop.
Attach(record, field, type, relatedRecords) ==
  IF type = "single"
  THEN LET foreignId == Field(record, field) IN
       IF /\ Truthy(foreignId) /\ foreignId.t = "string"
          /\ Has(relatedRecords, foreignId.v)
       THEN SetExpand(record, field,
                      [t |-> "object", v |-> << Get(relatedRecords, foreignId.v) >>])
       ELSE record
  ELSE LET foreignIds == parseRelationIds(Field(record, field))
           Matched(p) == Has(relatedRecords, <<p>>)
           matching == SelectSeq(foreignIds, Matched)
       IN IF Len(foreignIds) > 0
          THEN SetExpand(record, field,
                 [t |-> "array",
                  v |-> [k \in DOMAIN matching |-> Get(relatedRecords, <<matching[k]>>)]])
          ELSE record

\* A path is the list of its dot-separated segments, a segment the field
\* and the sort column parseFieldWithSort reads from it.  getRelationInfo
\* never returns null, so the `!relInfo` return is never taken.
RECURSIVE resolveExpandPath(_, _, _)
resolveExpandPath(records, collection, path) ==
  LET field == path[1].field
      sort == path[1].sort
      nestedParts == Tail(path)
      relInfo == getRelationInfo(collection, field)
      foreignIds == extractForeignIds(records, field, relInfo.type)
      Expanded(attached, i) == field \in DOMAIN attached[i].expand
      Nested(attached, nested, i) ==
        IF Expanded(attached, i)
        THEN SetExpand(attached[i], field,
               [t |-> attached[i].expand[field].t, v |-> nested[i].records])
        ELSE attached[i]
      \* the records after the nested resolutions: all of them, or up to the
      \* first that rejects
      Outcome(attached, nested) ==
        LET Rejecting == {i \in DOMAIN records : nested[i].thrown}
            rejected == CHOOSE i \in Rejecting : \A j \in Rejecting : i <= j
        IN IF Rejecting # {}
           THEN Throw([i \in DOMAIN records |->
                         IF i <= rejected THEN Nested(attached, nested, i)
                         ELSE attached[i]])
           ELSE Ok([i \in DOMAIN records |-> Nested(attached, nested, i)])
      AfterAttach(attached) ==
        LET WithNested(nested) == Outcome(attached, nested) IN
        IF nestedParts = << >> THEN Ok(attached)
        ELSE Bind([i \in DOMAIN records |->
                     IF Expanded(attached, i)
                     THEN resolveExpandPath(attached[i].expand[field].v,
                                            relInfo.collection, nestedParts)
                     ELSE Ok(<< >>)],
                  WithNested)
      AfterFetch(relatedMap) ==
        Bind([i \in DOMAIN records |->
                Attach(records[i], field, relInfo.type, relatedMap)],
             AfterAttach)
  IN IF foreignIds = {} THEN Ok(records)
     ELSE IF FetchThrows(relInfo.collection, sort) THEN Throw(records)
     ELSE Bind(SetOf(fetchRelatedRecords(relInfo.collection, foreignIds, sort)),
               AfterFetch)

\* expandPaths is the list parseExpandPaths splits the expression into.
RECURSIVE resolve(_, _, _)
resolve(records, collection, expandPaths) ==
  LET Rest(first) == IF first.thrown THEN first
                     ELSE resolve(first.records, collection, Tail(expandPaths))
  IN IF Len(records) = 0 \/ expandPaths = << >> THEN Ok(records)
     ELSE Bind(resolveExpandPath(records, collection, Head(expandPaths)), Rest)

\* One call of resolve on the batch: the records are changed in place, so
\* the next call starts from what this one has left.
Resolve ==
  /\ Len(runs) < MaxResolutions
  /\ LET r == resolve(batch, query.collection, query.expand) IN
       /\ batch' = r.records
       /\ runs' = Append(runs, IF r.thrown THEN "thrown" ELSE "ok")
  /\ UNCHANGED << schema, tables, query, answer >>
  /\ UNCHANGED << registryVars, recordVars, translateVars, catalogVars >>

\* ------------------------------------------------------------- translators
\* FilterParser.parse and SortParser.parse over strings held as character
\* sequences.  The regular expressions are matched as the engine matches
\* them: leftmost, the alternatives in order, the quantifiers greedy.
Digits == {"0", "1", "2", "3", "4", "5", "6", "7", "8", "9"}
Letters ==
  {"a", "b", "c", "d", "e", "f", "g", "h", "i", "j", "k", "l", "m", "n", "o", "p",
   "q", "r", "s", "t", "u", "v", "w", "x", "y", "z",
   "A", "B", "C", "D", "E", "F", "G", "H", "I", "J", "K", "L", "M", "N", "O", "P",
   "Q", "R", "S", "T", "U", "V", "W", "X", "Y", "Z"}
\* \w and \s
WordChars == Letters \cup Digits \cup {"_"}
Whitespace == {" "}

\* s starts with p at position i
StartsAt(s, i, p) ==
  i + Len(p) - 1 <= Len(s) /\ SubSeq(s, i, i + Len(p) - 1) = p

\* \b between s[i-1] and s[i]
Boundary(s, i) ==
  (i > 1 /\ s[i - 1] \in WordChars) # (i <= Len(s) /\ s[i] \in WordChars)

\* The number of characters of the set from position i on.
RECURSIVE RunLength(_, _, _)
RunLength(s, i, set) ==
  IF i <= Len(s) /\ s[i] \in set THEN 1 + RunLength(s, i + 1, set) ELSE 0

\* s.replace(/pattern/g, replacement) for a pattern of fixed characters
RECURSIVE ReplaceAll(_, _, _)
ReplaceAll(s, pattern, replacement) ==
  IF Len(s) < Len(pattern) THEN s
  ELSE IF StartsAt(s, 1, pattern)
  THEN replacement \o ReplaceAll(DropFirst(s, Len(pattern)), pattern, replacement)
  ELSE << Head(s) >> \o ReplaceAll(Tail(s), pattern, replacement)

\* /(\w+)\.(\w+)\s*\?=/ at position i: the lengths of $1 and of the match, or 0
DottedMatch(s, i) ==
  LET first == RunLength(s, i, WordChars)
      second == RunLength(s, i + first + 1, WordChars)
      spaces == RunLength(s, i + first + 1 + second, Whitespace)
      operator == i + first + 1 + second + spaces
  IN IF /\ first > 0
        /\ StartsAt(s, i + first, <<".">>)
        /\ second > 0
        /\ StartsAt(s, operator, <<"?", "=">>)
     THEN [first |-> first, all |-> operator + 2 - i]
     ELSE [first |-> 0, all |-> 0]

\* filter.replace(/(\w+)\.(\w+)\s*\?=/g, '$1 ?=')
RECURSIVE StripDotNotation(_, _)
StripDotNotation(s, i) ==
  IF i > Len(s) THEN << >>
  ELSE LET m == DottedMatch(s, i) IN
       IF m.all > 0
       THEN SubSeq(s, i, i + m.first - 1) \o <<" ", "?", "=">> \o StripDotNotation(s, i + m.all)
       ELSE << s[i] >> \o StripDotNotation(s, i + 1)

\* The closing quote of (?:[^q\\]|\\.)*q from position j on, or 0
RECURSIVE QuotedEnd(_, _, _)
QuotedEnd(s, j, q) ==
  IF j > Len(s) THEN 0
  ELSE IF s[j] = "\\" THEN (IF j + 1 <= Len(s) THEN QuotedEnd(s, j + 2, q) ELSE 0)
  ELSE IF s[j] = q THEN j
  ELSE QuotedEnd(s, j + 1, q)

\* \b(\d+\.?\d*)\b at position i: the length of the match, or 0
NumberMatch(s, i) ==
  LET whole == RunLength(s, i, Digits)
      dot == StartsAt(s, i + whole, <<".">>)
      fraction == RunLength(s, i + whole + 1, Digits)
  IN IF whole = 0 \/ ~Boundary(s, i) THEN 0
     ELSE IF dot /\ Boundary(s, i + whole + 1 + fraction) THEN whole + 1 + fraction
     ELSE IF dot /\ Boundary(s, i + whole + 1) THEN whole + 1
     ELSE IF Boundary(s, i + whole) THEN whole
     ELSE 0

\* \bword\b at position i: the length of the match, or 0
KeywordMatch(s, i, word) ==
  IF StartsAt(s, i, word) /\ Boundary(s, i) /\ Boundary(s, i + Len(word))
  THEN Len(word) ELSE 0

true == <<"t", "r", "u", "e">>
false == <<"f", "a", "l", "s", "e">>
null == <<"n", "u", "l", "l">>

\* valuePattern at position i: the length of the match, or 0
ValueMatch(s, i) ==
  IF s[i] \in {"\"", "'"}
  THEN LET end == QuotedEnd(s, i + 1, s[i]) IN IF end > 0 THEN end - i + 1 ELSE 0
  ELSE IF NumberMatch(s, i) > 0 THEN NumberMatch(s, i)
  ELSE IF KeywordMatch(s, i, true) > 0 THEN Len(true)
  ELSE IF KeywordMatch(s, i, false) > 0 THEN Len(false)
  ELSE KeywordMatch(s, i, null)

\* A bound value: a number, a string or null.  A number is held as the text
\* JavaScript prints it with, so that `%${value}%` is a concatenation.
Number(text) == [t |-> "number", v |-> text]
String(text) == [t |-> "string", v |-> text]
NullValue == [t |-> "null", v |-> << >>]

\* parseFloat(match) of a match of \d+\.?\d*, printed: leading zeros of the
\* whole part, trailing zeros of the fraction and a trailing dot are dropped
RECURSIVE DropLeadingZeros(_)
DropLeadingZeros(s) ==
  IF Len(s) > 1 /\ Head(s) = "0" THEN DropLeadingZeros(Tail(s)) ELSE s
RECURSIVE DropTrailingZeros(_)
DropTrailingZeros(s) ==
  IF Len(s) > 0 /\ s[Len(s)] = "0" THEN DropTrailingZeros(DropLast(s, 1)) ELSE s
parseFloat(match) ==
  LET parts == Split(match, ".")
      whole == DropLeadingZeros(parts[1])
      fraction == IF Len(parts) > 1 THEN DropTrailingZeros(parts[2]) ELSE << >>
  IN IF fraction = << >> THEN whole ELSE whole \o <<".">> \o fraction

\* str.replace(/\\'/g, "'").replace(/\\"/g, '"').replace(/\\\\/g, '\\')
Unescape(str) ==
  ReplaceAll(ReplaceAll(ReplaceAll(str, <<"\\", "'">>, <<"'">>),
                        <<"\\", "\"">>, <<"\"">>),
             <<"\\", "\\">>, <<"\\">>)

\* The value the callback of the valuePattern replace pushes.
Decode(match) ==
  IF match = true THEN Number(<<"1">>)
  ELSE IF match = false THEN Number(<<"0">>)
  ELSE IF match = null THEN NullValue
  ELSE IF Head(match) \in {"'", "\""}
  THEN String(Unescape(SubSeq(match, 2, Len(match) - 1)))
  ELSE Number(parseFloat(match))

\* sql.replace(valuePattern, ...): the text with placeholders, and the values
RECURSIVE ExtractValues(_, _)
ExtractValues(s, i) ==
  IF i > Len(s) THEN [sql |-> << >>, values |-> << >>]
  ELSE LET n == ValueMatch(s, i) IN
       IF n > 0
       THEN LET rest == ExtractValues(s, i + n) IN
            [sql |-> <<"?">> \o rest.sql,
             values |-> << Decode(SubSeq(s, i, i + n - 1)) >> \o rest.values]
       ELSE LET rest == ExtractValues(s, i + 1) IN
            [sql |-> << s[i] >> \o rest.sql, values |-> rest.values]

\* /operator\s*\?/ at position i: the length of the match, or 0
OperatorMatch(s, i, operator) ==
  LET spaces == RunLength(s, i + Len(operator), Whitespace) IN
  IF StartsAt(s, i, operator) /\ StartsAt(s, i + Len(operator) + spaces, <<"?">>)
  THEN Len(operator) + spaces + 1 ELSE 0

LikePlaceholder == <<"L", "I", "K", "E", " ", "?">>

\* sql.replace(/operator\s*\?/g, () => 'LIKE ?'): the text, and the number
\* of calls of the callback
RECURSIVE ReplaceOperator(_, _, _)
ReplaceOperator(s, i, operator) ==
  IF i > Len(s) THEN [sql |-> << >>, count |-> 0]
  ELSE LET n == OperatorMatch(s, i, operator) IN
       IF n > 0
       THEN LET rest == ReplaceOperator(s, i + n, operator) IN
            [sql |-> LikePlaceholder \o rest.sql, count |-> rest.count + 1]
       ELSE LET rest == ReplaceOperator(s, i + 1, operator) IN
            [sql |-> << s[i] >> \o rest.sql, count |-> rest.count]

\* String(value) inside a template literal
Text(value) == IF value.t = "null" THEN null ELSE value.v

\* values[idx] = `%${values[idx]}%` and values[idx] = `%"${values[idx]}"%`,
\* for the indices of the list that hold a value other than null
Wrap(values, indices, before, after) ==
  [k \in DOMAIN values |->
     IF (k - 1) \in indices /\ values[k].t # "null"
     THEN String(before \o Text(values[k]) \o after)
     ELSE values[k]]

\* FilterParser.parse
parse(filterText) ==
  LET stripped == StripDotNotation(filterText, 1)
      operators == ReplaceAll(ReplaceAll(ReplaceAll(stripped,
                      <<"&", "&">>, <<" ", "A", "N", "D", " ">>),
                      <<"|", "|">>, <<" ", "O", "R", " ">>),
                      <<"!", "=">>, <<"<", ">">>)
      extracted == ExtractValues(operators, 1)
      likes == ReplaceOperator(extracted.sql, 1, <<"~">>)
      contains == ReplaceOperator(likes.sql, 1, <<"?", "=">>)
      \* valueIndex counts the matches of the two replaces, from 0
      likeIndices == 0..(likes.count - 1)
      arrayContainsIndices == likes.count..(likes.count + contains.count - 1)
  IN [sql |-> contains.sql,
      values |-> Wrap(Wrap(extracted.values, likeIndices, <<"%">>, <<"%">>),
                      arrayContainsIndices, <<"%", "\"">>, <<"\"", "%">>),
      done |-> TRUE]

\* field.trim()
RECURSIVE TrimLeft(_)
TrimLeft(s) == IF Len(s) > 0 /\ Head(s) \in Whitespace THEN TrimLeft(Tail(s)) ELSE s
RECURSIVE TrimRight(_)
TrimRight(s) ==
  IF Len(s) > 0 /\ s[Len(s)] \in Whitespace THEN TrimRight(DropLast(s, 1)) ELSE s
Trim(s) == TrimRight(TrimLeft(s))

\* list.join(separator)
RECURSIVE Join(_, _)
Join(list, separator) ==
  IF Len(list) = 0 THEN << >>
  ELSE IF Len(list) = 1 THEN list[1]
  ELSE list[1] \o separator \o Join(Tail(list), separator)

\* The callback of the map in SortParser.parse
SortTerm(part) ==
  LET field == Trim(part) IN
  IF StartsWith(field, <<"-">>)
  THEN DropFirst(field, 1) \o <<" ", "D", "E", "S", "C">>
  ELSE field \o <<" ", "A", "S", "C">>

\* SortParser.parse
SortParser_parse(sortText) ==
  LET parts == Split(sortText, ",") IN
  Join([k \in DOMAIN parts |-> SortTerm(parts[k])], <<",", " ">>)

\* One call of FilterParser.parse
ParseFilter ==
  /\ ~parsed.done
  /\ parsed' = parse(filterString)
  /\ UNCHANGED << filterString, sortString, orderBy >>
  /\ UNCHANGED << registryVars, recordVars, expandVars, catalogVars >>

\* One call of SortParser.parse
ParseSort ==
  /\ ~orderBy.done
  /\ orderBy' = [sql |-> SortParser_parse(sortString), values |-> << >>, done |-> TRUE]
  /\ UNCHANGED << filterString, parsed, sortString >>
  /\ UNCHANGED << registryVars, recordVars, expandVars, catalogVars >>

\* JSON.parse of the string fields that start with '['
ParseArrays(record) ==
  [record EXCEPT !.row =
     [k \in DOMAIN record.row |->
        IF record.row[k].t = "json" THEN Arr(record.row[k].v) ELSE record.row[k]]]

\* record.collectionName = collection
SetCollectionName(record, collection) ==
  [record EXCEPT !.row =
     [k \in DOMAIN record.row \cup {collectionNameField} |->
        IF k = collectionNameField THEN [t |-> "name", v |-> collection]
        ELSE record.row[k]]]

\* Math.floor in the place of Math.ceil
Ceil_floor(a, b) == a \div b
Ceil(a, b) == (a + b - 1) \div b

\* The rows a WHERE clause of one comparison keeps: column = ? or
\* column <> ? with the bound value (NULL satisfies neither).
Where(rows, sql, values) ==
  LET terms == Split(sql, " ")
      column == terms[1]
      Holds(row) == /\ row[column].t # "null"
                    /\ IF terms[2] = <<"=">> THEN row[column] = values[1]
                       ELSE row[column] # values[1]
  IN SelectSeq(rows, Holds)

\* The rows under an ORDER BY clause of one term, "column ASC" or
\* "column DESC"
OrderByClause(rows, clause) ==
  LET terms == Split(clause, " ") IN
  OrderBy(rows, terms[1], terms[2] = <<"D", "E", "S", "C">>)

\* SELECT * FROM collection [WHERE ...] [ORDER BY ...]: the rows before the
\* LIMIT, in the order of the table unless sorted
SelectRows(collection, filter, sort) ==
  LET Kept(filterParsed) ==
        Where(tables[collection].rows, filterParsed.sql, filterParsed.values)
      Sorted(kept) ==
        LET Ordered(clause) == OrderByClause(kept, clause) IN
        IF sort # << >> THEN Bind(SortParser_parse(sort), Ordered) ELSE kept
      Filtered(filterParsed) == Bind(Kept(filterParsed), Sorted)
  IN IF filter # << >> THEN Bind(parse(filter), Filtered)
     ELSE Sorted(tables[collection].rows)

\* ... LIMIT perPage OFFSET offset
Page(rows, perPage, offset) ==
  LET last == IF offset + perPage < Len(rows) THEN offset + perPage ELSE Len(rows)
  IN [k \in 1..(IF last > offset THEN last - offset ELSE 0) |-> Rec(rows[offset + k])]

\* GET /:collection/records: the response to query q
ListAnswer(q) ==
  LET collection == q.collection
      offset == (q.page - 1) * q.perPage
      \* SELECT COUNT(*) ... with the same WHERE clause
      totalItems == IF q.skipTotal THEN -1
                    ELSE Len(SelectRows(collection, q.filter, << >>))
      totalPages == IF q.skipTotal THEN -1 ELSE Ceil(totalItems, q.perPage)
      Response(items) ==
        LET expanded == IF q.expand # NoExpand
                        THEN resolve(items, collection, q.expand)
                        ELSE Ok(items)
        IN IF expanded.thrown
           THEN [status |-> 400]
           ELSE [status |-> 200, page |-> q.page, perPage |-> q.perPage,
                 totalItems |-> totalItems, totalPages |-> totalPages,
                 items |-> [k \in DOMAIN expanded.records |->
                              SetCollectionName(ParseArrays(expanded.records[k]),
                                                collection)]]
  IN IF collection \notin DOMAIN tables
     THEN [status |-> 400]
     ELSE LET Paged(rows) == Bind(Page(rows, q.perPage, offset), Response) IN
          Bind(SelectRows(collection, q.filter, q.sort), Paged)

ListRecords ==
  /\ query.op = "list"
  /\ answer = NoAnswer
  /\ answer' = ListAnswer(query)
  /\ UNCHANGED << schema, tables, query, batch, runs >>
  /\ UNCHANGED << registryVars, recordVars, translateVars, catalogVars >>

\* GET /:collection/records/:id: the response to query q
GetOneAnswer(q) ==
  LET collection == q.collection
      results == SelectByIds(collection, {q.id})
      Response(record) ==
        LET Answer(expanded) ==
              IF expanded.thrown THEN [status |-> 400]
              ELSE [status |-> 200, record |-> expanded.records[1]]
        IN Bind(IF q.expand # NoExpand
                THEN resolve(<< record >>, collection, q.expand)
                ELSE Ok(<< record >>),
                Answer)
  IN IF collection \notin DOMAIN tables THEN [status |-> 400]
     ELSE IF results = {} THEN [status |-> 404]
     ELSE Bind(SetCollectionName(ParseArrays(CHOOSE r \in results : TRUE), collection),
               Response)

GetOneRecord ==
  /\ query.op = "one"
  /\ answer = NoAnswer
  /\ answer' = GetOneAnswer(query)
  /\ UNCHANGED << schema, tables, query, batch, runs >>
  /\ UNCHANGED << registryVars, recordVars, translateVars, catalogVars >>

\* ------------------------------------------------------------ schema cache
\* SchemaCache over the rows of table _collections.  The fields column of a
\* row is JSON text, an array the driver has parsed already, or text that
\* is no JSON.  In the reads above, schema is getRelationCollection of a
\* cache that is initialized, tabulated.
MapSet(map, key, value) ==
  [k \in DOMAIN map \cup {key} |-> IF k = key THEN value ELSE map[k]]

\* The loop of initialize from row k on: JSON.parse throws on the first
\* row whose fields are no JSON, the entries set before it stay.
RECURSIVE LoadRows(_, _, _, _)
LoadRows(results, k, byName, byId) ==
  IF k > Len(results)
  THEN [collections |-> byName, collectionIdToName |-> byId, thrown |-> FALSE]
  ELSE LET row == results[k] IN
       IF row.fields.t = "malformed"
       THEN [collections |-> byName, collectionIdToName |-> byId, thrown |-> TRUE]
       ELSE LoadRows(results, k + 1,
                     MapSet(byName, row.name,
                            [id |-> row.id, name |-> row.name, fields |-> row.fields.v]),
                     MapSet(byId, row.id, row.name))

\* SchemaCache.getRelationCollection; << >> is null
SchemaCache_getRelationCollection(collectionName, fieldName) ==
  IF collectionName \notin DOMAIN collections THEN << >>
  ELSE LET fields == collections[collectionName].fields
           found == { k \in DOMAIN fields :
                        fields[k].name = fieldName /\ fields[k].type = "relation" }
           field == fields[CHOOSE k \in found : \A j \in found : k <= j]
       IN IF found = {} \/ field.collectionId = << >> THEN << >>
          ELSE IF field.collectionId \in DOMAIN collectionIdToName
          THEN collectionIdToName[field.collectionId]
          ELSE << >>

\* SchemaCache.isRelationField
SchemaCache_isRelationField(collectionName, fieldName) ==
  IF collectionName \notin DOMAIN collections THEN FALSE
  ELSE LET fields == collections[collectionName].fields
           found == { k \in DOMAIN fields : fields[k].name = fieldName }
       IN found # {} /\ fields[CHOOSE k \in found : \A j \in found : k <= j].type = "relation"

\* initialize() is called (outside refresh): it returns at once on an
\* initialized cache, else it sends the SELECT and awaits the rows.
Initialize ==
  /\ loadPc = "idle"
  /\ Len(history) < MaxHistory
  /\ IF initialized
     THEN /\ history' = Append(history, [op |-> "initialize", result |-> "returned"])
          /\ UNCHANGED loadPc
     ELSE /\ loadPc' = "initialize"
          /\ UNCHANGED history
  /\ UNCHANGED << metadata, collections, collectionIdToName, initialized >>
  /\ UNCHANGED << registryVars, recordVars, expandVars, translateVars >>

\* refresh(): both maps are cleared and the flag reset, then initialize is
\* called and awaits the rows.
Refresh ==
  /\ loadPc = "idle"
  /\ Len(history) < MaxHistory
  /\ collections' = << >>
  /\ collectionIdToName' = << >>
  /\ initialized' = FALSE
  /\ loadPc' = "refresh"
  /\ history' = Append(history, [op |-> "refresh", initialized |-> initialized])
  /\ UNCHANGED metadata
  /\ UNCHANGED << registryVars, recordVars, expandVars, translateVars >>

\* The SELECT fails: the catch block logs and throws.
QueryFails ==
  /\ loadPc # "idle"
  /\ loadPc' = "idle"
  /\ history' = Append(history, [op |-> "initialize", result |-> "thrown"])
  /\ UNCHANGED << metadata, collections, collectionIdToName, initialized >>
  /\ UNCHANGED << registryVars, recordVars, expandVars, translateVars >>

\* The SELECT returns the rows: the loop runs to its end, or to the row it
\* throws on.
QueryReturns ==
  /\ loadPc # "idle"
  /\ LET loaded == LoadRows(metadata, 1, collections, collectionIdToName) IN
       /\ collections' = loaded.collections
       /\ collectionIdToName' = loaded.collectionIdToName
       /\ initialized' = (IF loaded.thrown THEN initialized ELSE TRUE)
       /\ history' = Append(history, [op |-> "initialize",
                                      result |-> IF loaded.thrown THEN "thrown" ELSE "ok"])
  /\ loadPc' = "idle"
  /\ UNCHANGED metadata
  /\ UNCHANGED << registryVars, recordVars, expandVars, translateVars >>

\* A request looks a field up, whatever the cache is doing.
GetRelationCollection(collectionName, fieldName) ==
  /\ Len(history) < MaxHistory
  /\ history' = Append(history,
                  [op |-> "getRelationCollection", collection |-> collectionName,
                   field |-> fieldName, during |-> loadPc,
                   result |-> SchemaCache_getRelationCollection(collectionName, fieldName)])
  /\ UNCHANGED << metadata, collections, collectionIdToName, initialized, loadPc >>
  /\ UNCHANGED << registryVars, recordVars, expandVars, translateVars >>

IsRelationField(collectionName, fieldName) ==
  /\ Len(history) < MaxHistory
  /\ history' = Append(history,
                  [op |-> "isRelationField", collection |-> collectionName,
                   field |-> fieldName, during |-> loadPc,
                   result |-> SchemaCache_isRelationField(collectionName, fieldName)])
  /\ UNCHANGED << metadata, collections, collectionIdToName, initialized, loadPc >>
  /\ UNCHANGED << registryVars, recordVars, expandVars, translateVars >>

\* -------------------------------------------------------------- the system
\* The subscription lists posted while the sweep is studied.
SweepSubscriptionInputs == { << posts \o <<"/", "*">> >> }

Next ==
  \/ OpenConnection
  \/ \E clientId \in 0..MaxClients, subscriptions \in SweepSubscriptionInputs :
       UpdateSubscriptions(clientId, TRUE, subscriptions)
  \/ Broadcast(MaxBroadcasts, posts, "create", <<"x">>)
  \/ Sweep
  \/ Tick(MaxTime)
  \/ \E c \in ClientIds : Cancel(c)
  \/ \E c \in ClientIds, mode \in {"broken", "stalled"} : ChannelFail(c, mode)
  \/ Destroy

InitNative == Init /\ impl = "native"

InitHono == Init /\ impl = "hono"

\* The registry of the native implementation with its sweep.
Spec == InitNative /\ [][Next]_vars

\* The Hono implementation: opening a stream against the sweep and broadcasts.
NextHono ==
  \/ OpenConnection
  \/ \E c \in ClientIds : OpenStep(c)
  \/ \E clientId \in ClientIds, subscriptions \in SweepSubscriptionInputs :
       \* a client can name its id once the `id:` line has been written to it
       /\ connPc[clientId] >= 2
       /\ UpdateSubscriptions(clientId, TRUE, subscriptions)
  \/ Broadcast(MaxBroadcasts, posts, "create", <<"x">>)
  \/ Sweep
  \/ Tick(MaxHonoTime)
  \/ \E c \in ClientIds : Cancel(c)

SpecHono == InitHono /\ [][NextHono]_vars

\* The native implementation without the sweep: subscriptions against broadcasts.
NextMatch ==
  \/ OpenConnection
  \/ \E clientId \in 0..MaxClients, subscriptions \in SubscriptionInputs :
       UpdateSubscriptions(clientId, TRUE, subscriptions)
  \/ \E clientId \in 0..MaxClients : UpdateSubscriptions(clientId, FALSE, << >>)
  \/ \E b \in BroadcastInputs : Broadcast(MaxMatchBroadcasts, b[1], b[2], b[3])
  \/ \E c \in ClientIds : Cancel(c)
  \/ \E c \in ClientIds : ChannelFail(c, "broken")

SpecMatch == InitNative /\ [][NextMatch]_vars

\* The record and batch handlers against one connection that is subscribed
\* to posts/* from the start.
BatchInputs ==
  { << Item("POST", << >>, [title |-> "b"]) >>,
    << Item("PATCH", <<"x">>, [title |-> "c", id |-> <<"w">>]),
       Item("DELETE", <<"x">>, << >>) >>,
    << Item("DELETE", <<"w">>, << >>), Item("GET", <<"x">>, << >>) >>,
    << Item("POST", << >>, [title |-> "b"]),
       Item("PATCH", <<"w">>, [title |-> "c"]),
       Item("POST", << >>, [title |-> "c"]) >> }

\* A generated id is known to the clients once a response or an event frame
\* has carried it.
Announced(id) ==
  \/ \E p \in DOMAIN sent : sent[p].record.id = id
  \/ \E r \in Requests :
        /\ pc[r] = "done"
        /\ IF req[r].method = "BATCH"
           THEN \E k \in DOMAIN resp[r].body :
                   resp[r].body[k].status = 200 /\ resp[r].body[k].body.id = id
           ELSE resp[r].status = 200 /\ resp[r].body.id = id

\* The ids a request names: the record of the initial table, the id the
\* clients make up, and the generated ids the clients know.
RequestIds ==
  {<<"x">>, <<"w">>} \cup {id \in SetOf(GeneratedIds) : Announced(id)}

InitRecords ==
  /\ InitRest
  /\ impl = "native"
  /\ clients = [c \in {1} |-> [subscriptions |-> {WildcardTopic(posts)}, lastActive |-> 0]]
  /\ nextClient = 1
  /\ stream = [c \in ClientIds |-> IF c = 1 THEN << ConnectFrame >> ELSE << >>]
  /\ connPc = [c \in ClientIds |-> IF c = 1 THEN 4 ELSE 0]
  /\ NoRead

NextRecords ==
  \/ \E r \in Requests, body \in CreateBodies : PostInsert(r, body)
  \/ \E r \in Requests : PostSelect(r)
  \/ \E r \in Requests : PostFinish(r)
  \/ \E r \in Requests, id \in RequestIds, body \in UpdateBodies : PatchUpdate(r, id, body)
  \/ \E r \in Requests : PatchSelect(r)
  \/ \E r \in Requests : PatchFinish(r)
  \/ \E r \in Requests, id \in RequestIds : DeleteSelect(r, id)
  \/ \E r \in Requests : DeleteDelete(r)
  \/ \E r \in Requests : DeleteFinish(r)
  \/ \E r \in Requests, items \in BatchInputs : BatchStart(r, items)
  \/ \E r \in Requests : BatchSelect(r)
  \/ \E r \in Requests : BatchNext(r)

SpecRecords == InitRecords /\ [][NextRecords]_vars

\* The reads with expand.  Table posts holds a single id in authorId and a
\* list of ids in tags (as JSON text, and comma separated); u9 and t9 are ids
\* of no row.
Row(id, rest) ==
  [k \in {idField} \cup DOMAIN rest |-> IF k = idField THEN Str(<<id>>) ELSE rest[k]]
PostRows ==
  << Row("p1", (titleField :> Str(<<"a">>)) @@ (authorIdField :> Str(<<"u1">>))
               @@ (tags :> JsonText(<<"t2", "t9", "t1">>))),
     Row("p2", (titleField :> Str(<<"b">>)) @@ (authorIdField :> Str(<<"u9">>))
               @@ (tags :> Str(<<"t1", "t2">>))),
     Row("p3", (titleField :> Str(<<"">>)) @@ (authorIdField :> Null)
               @@ (tags :> JsonText(<< >>))) >>
UserRows ==
  << Row("u1", (nameField :> Str(<<"n">>)) @@ (tags :> JsonText(<<"t1">>))),
     Row("u2", (nameField :> Str(<<"m">>)) @@ (tags :> Null)) >>
TagRows ==
  << Row("t1", (nameField :> Str(<<"k">>))), Row("t2", (nameField :> Str(<<"l">>))) >>
Table(rows) == [columns |-> DOMAIN rows[1], rows |-> rows]
TableInputs ==
  { (posts :> Table(PostRows)) @@ (users :> Table(UserRows)) @@ (tags :> Table(TagRows)),
    (posts :> Table(PostRows)) @@ (users :> Table(UserRows)) }
SchemaInputs == { << >>, (<<posts, authorIdField>> :> users) }

Seg(field) == [field |-> field, sort |-> NoSort]
ExpandInputs ==
  { NoExpand,
    << <<Seg(authorIdField)>> >>,
    << <<Seg(tags)>> >>,
    << <<Seg(authorIdField)>>, <<Seg(tags)>> >>,
    << <<Seg(titleField)>>, <<Seg(authorIdField)>> >>,
    << <<Seg(authorIdField)>>, <<Seg(authorField)>> >>,
    << <<Seg(authorIdField), Seg(tags)>> >>,
    << <<[field |-> tags, sort |-> nameField]>> >>,
    << <<[field |-> tags, sort |-> nameField \o <<":", "d", "e", "s", "c">>]>> >> }
\* The pages asked for: the default page, and pages of two rows up to one
\* beyond the last.
PageInputs == { <<1, 30>>, <<1, 2>>, <<2, 2>>, <<3, 2>> }
\* The filter and sort parameters; the empty string is the absent one.
ListFilters ==
  { << >>,
    titleField \o <<" ", "=", " ", "'", "a", "'">>,
    titleField \o <<" ", "!", "=", " ", "'", "a", "'">> }
ListSorts == { << >>, titleField, <<"-">> \o titleField }
QueryInputs ==
  { [op |-> "list", collection |-> posts, page |-> pg[1], perPage |-> pg[2],
     skipTotal |-> st, filter |-> << >>, sort |-> << >>, expand |-> e] :
       pg \in {<<1, 30>>, <<2, 2>>}, st \in BOOLEAN, e \in ExpandInputs }
  \cup
  { [op |-> "list", collection |-> posts, page |-> pg[1], perPage |-> pg[2],
     skipTotal |-> st, filter |-> f, sort |-> s, expand |-> e] :
       pg \in PageInputs, st \in BOOLEAN, f \in ListFilters, s \in ListSorts,
       e \in {NoExpand, << <<Seg(tags)>> >>} }
  \cup
  { [op |-> "one", collection |-> posts, id |-> <<i>>, expand |-> e] :
       i \in {"p1", "p2", "p3", "p9"}, e \in ExpandInputs }

InitExpand ==
  /\ InitRest
  /\ impl = "native"
  /\ clients = << >>
  /\ nextClient = 0
  /\ stream = [c \in ClientIds |-> << >>]
  /\ connPc = [c \in ClientIds |-> 0]
  /\ schema \in SchemaInputs
  /\ tables \in TableInputs
  /\ query \in QueryInputs
  /\ answer = NoAnswer
  /\ batch = << >>
  /\ runs = << >>
  /\ NoTranslation
  /\ NoCatalog

NextExpand ==
  \/ ListRecords
  \/ GetOneRecord

\* One read of RecordsAPI over each schema cache, set of tables and expand
\* expression.
SpecExpand == InitExpand /\ [][NextExpand]_vars

\* The batch a handler hands to resolve: the page of the List, the record of
\* the GetOne.
HandlerBatch(q) ==
  IF q.op = "list"
  THEN Page(SelectRows(q.collection, q.filter, q.sort), q.perPage, (q.page - 1) * q.perPage)
  ELSE LET results == SelectByIds(q.collection, {q.id}) IN
       IF results = {} THEN << >>
       ELSE << SetCollectionName(ParseArrays(CHOOSE r \in results : TRUE), q.collection) >>

InitResolve ==
  /\ InitRest
  /\ impl = "native"
  /\ clients = << >>
  /\ nextClient = 0
  /\ stream = [c \in ClientIds |-> << >>]
  /\ connPc = [c \in ClientIds |-> 0]
  /\ schema \in SchemaInputs
  /\ tables \in TableInputs
  /\ query \in {q \in QueryInputs : q.expand # NoExpand}
  /\ answer = NoAnswer
  /\ batch = HandlerBatch(query)
  /\ runs = << >>
  /\ NoTranslation
  /\ NoCatalog

NextResolve == Resolve

\* The resolver called again on the batch it has expanded.
SpecResolve == InitResolve /\ [][NextResolve]_vars

\* The filters handed to FilterParser.parse: one comparison, or two joined
\* by && or ||.  A literal is the text the client writes and the value that
\* text denotes.
Literal(text, value) == [text |-> text, value |-> value]
PlainLiterals ==
  { Literal(<<"'", "x", "'">>, String(<<"x">>)),
    Literal(<<"\"", "y", "\"">>, String(<<"y">>)),
    Literal(<<"'", "i", "t", "\\", "'", "s", "'">>, String(<<"i", "t", "'", "s">>)),
    Literal(true, Number(<<"1">>)),
    Literal(<<"5">>, Number(<<"5">>)),
    Literal(<<"1", ".", "5", "0">>, Number(<<"1", ".", "5">>)) }
Literals ==
  PlainLiterals \cup
  { Literal(<<"'", "a", "&", "&", "b", "'">>, String(<<"a", "&", "&", "b">>)),
    Literal(null, NullValue) }
Comparison(field, operator, literal) ==
  [field |-> field, operator |-> operator, literal |-> literal]
Comparisons ==
  { Comparison(titleField, <<"=">>, l) : l \in Literals } \cup
  { Comparison(titleField, <<"~">>, l) : l \in Literals } \cup
  { Comparison(titleField, <<"!", "=">>, l) : l \in Literals } \cup
  { Comparison(tags \o <<".">> \o nameField, <<"?", "=">>, l) : l \in Literals } \cup
  { Comparison(authorIdField, <<">">>, l) : l \in Literals }
FirstComparisons ==
  { Comparison(<<"s", "t", "a", "t", "u", "s">>, <<"=">>, Literal(true, Number(<<"1">>))),
    Comparison(tags, <<"?", "=">>, Literal(<<"'", "x", "'">>, String(<<"x">>))),
    Comparison(titleField, <<"~">>, Literal(<<"\"", "y", "\"">>, String(<<"y">>))) }
FilterInputs ==
  { [comparisons |-> << c >>, connective |-> <<"&", "&">>] : c \in Comparisons } \cup
  { [comparisons |-> << c, d >>, connective |-> j] :
      c \in FirstComparisons, d \in Comparisons, j \in {<<"&", "&">>, <<"|", "|">>} }

ComparisonText(c) == c.field \o <<" ">> \o c.operator \o <<" ">> \o c.literal.text
FilterText(f) ==
  Join([k \in DOMAIN f.comparisons |-> ComparisonText(f.comparisons[k])],
       <<" ">> \o f.connective \o <<" ">>)

\* The sorts handed to SortParser.parse: up to two fields, each ascending
\* or (with a leading dash) descending; the empty list is the empty string.
created == <<"c", "r", "e", "a", "t", "e", "d">>
SortField(field, descending) == [field |-> field, descending |-> descending]
SortFields == { SortField(f, d) : f \in {created, titleField}, d \in BOOLEAN }
SortInputs ==
  { << >> } \cup { << a >> : a \in SortFields } \cup { << a, b >> : a, b \in SortFields }
SortText(s) ==
  Join([k \in DOMAIN s |-> IF s[k].descending THEN <<"-">> \o s[k].field ELSE s[k].field],
       <<",">>)

InitTranslate ==
  /\ InitRest
  /\ impl = "native"
  /\ clients = << >>
  /\ nextClient = 0
  /\ stream = [c \in ClientIds |-> << >>]
  /\ connPc = [c \in ClientIds |-> 0]
  /\ schema = << >>
  /\ tables = << >>
  /\ query = NoQuery
  /\ answer = NoAnswer
  /\ batch = << >>
  /\ runs = << >>
  /\ filterString \in { FilterText(f) : f \in FilterInputs }
  /\ parsed = NoParse
  /\ sortString \in { SortText(s) : s \in SortInputs }
  /\ orderBy = NoParse
  /\ NoCatalog

NextTranslate ==
  \/ ParseFilter
  \/ ParseSort

\* The two translators, each called once on each of its inputs.
SpecTranslate == InitTranslate /\ [][NextTranslate]_vars


\* The schema cache over three tables _collections: posts.authorId is a
\* relation to users in each; in two of them the fields of one row are no
\* JSON.
FieldSchema(name, type, collectionId) ==
  [name |-> name, type |-> type, collectionId |-> collectionId]
CollectionRow(id, name, fields) == [id |-> id, name |-> name, fields |-> fields]
usersRow == CollectionRow(<<"c", "2">>, users, [t |-> "json", v |-> << FieldSchema(nameField, "text", << >>) >>])
postsRow ==
  CollectionRow(<<"c", "1">>, posts,
                [t |-> "array",
                 v |-> << FieldSchema(titleField, "text", << >>),
                          FieldSchema(authorIdField, "relation", <<"c", "2">>) >>])
tagsRow == CollectionRow(<<"c", "3">>, tags, [t |-> "json", v |-> << >>])
Malformed(row) == [row EXCEPT !.fields = [t |-> "malformed", v |-> << >>]]
MetadataInputs ==
  { << usersRow, postsRow, tagsRow >>,
    << usersRow, postsRow, Malformed(tagsRow) >>,
    << Malformed(usersRow), postsRow, tagsRow >> }

InitCatalog ==
  /\ InitRest
  /\ impl = "native"
  /\ clients = << >>
  /\ nextClient = 0
  /\ stream = [c \in ClientIds |-> << >>]
  /\ connPc = [c \in ClientIds |-> 0]
  /\ schema = << >>
  /\ tables = << >>
  /\ query = NoQuery
  /\ answer = NoAnswer
  /\ batch = << >>
  /\ runs = << >>
  /\ NoTranslation
  /\ metadata \in MetadataInputs
  /\ collections = << >>
  /\ collectionIdToName = << >>
  /\ initialized = FALSE
  /\ loadPc = "idle"
  /\ history = << >>

NextCatalog ==
  \/ Initialize
  \/ Refresh
  \/ QueryFails
  \/ QueryReturns
  \/ \E f \in {authorIdField, titleField} : GetRelationCollection(posts, f)
  \/ \E f \in {authorIdField, titleField} : IsRelationField(posts, f)

\* The schema cache with its loads and the lookups of concurrent requests.
SpecCatalog == InitCatalog /\ [][NextCatalog]_vars

\* ------------------------------------------------------------------ claims
\* A subscribed string names a topic: it is the topic, or the topic
\* immediately followed by "?".
NamesTopic(sub, topic) ==
  \/ sub = topic
  \/ /\ Len(sub) > Len(topic)
     /\ \A i \in 1..Len(topic) : sub[i] = topic[i]
     /\ sub[Len(topic) + 1] = "?"

Subscribed(subscriptions, collection, recordId) ==
  \E sub \in subscriptions :
     \/ NamesTopic(sub, collection \o <<"/", "*">>)
     \/ NamesTopic(sub, collection \o <<"/">> \o recordId)

\* The step is a broadcastEvent call.
BroadcastStep == broadcasts' # broadcasts

\* The step wrote one event frame of the broadcast to the stream of c.
EventWritten(c) ==
  /\ Len(stream'[c]) = Len(stream[c]) + 1
  /\ SubSeq(stream'[c], 1, Len(stream[c])) = stream[c]
  /\ stream'[c][Len(stream'[c])].kind = "event"
  /\ stream'[c][Len(stream'[c])].action = lastBroadcast'.action
  /\ stream'[c][Len(stream'[c])].record = lastBroadcast'.record

\* C1: in every broadcastEvent(collection, action, record), a registered
\* connection is sent an event frame (the frame is written to its stream, or
\* the write throws and the connection is dropped) if and only if one of its
\* subscribed strings is collection/* or collection/id, or one of these two
\* followed by "?"; every other connection's stream and entry are untouched.
C1_SentIffSubscribed ==
  [][BroadcastStep =>
       \A c \in DOMAIN clients :
          IF Subscribed(clients[c].subscriptions, lastBroadcast'.collection,
                        lastBroadcast'.record.id)
          THEN IF chan[c] = "broken"
               THEN c \notin DOMAIN clients' /\ stream'[c] = stream[c]
               ELSE c \in DOMAIN clients' /\ EventWritten(c)
          ELSE /\ stream'[c] = stream[c]
               /\ c \in DOMAIN clients' /\ clients'[c] = clients[c]]_vars

HasEvent(c) == \E i \in DOMAIN stream[c] : stream[c][i].kind = "event"

\* After a broadcast for posts record x: a connection subscribed to
\* "posts/*?o" holds the event, one subscribed only to "posts/y" holds none.
C1_Witness ==
  /\ broadcasts = 1
  /\ lastBroadcast.collection = posts /\ lastBroadcast.record.id = <<"x">>
  /\ \E c, d \in DOMAIN clients :
       /\ clients[c].subscriptions = { posts \o <<"/", "*", "?", "o">> }
       /\ HasEvent(c)
       /\ clients[d].subscriptions = { posts \o <<"/", "y">> }
       /\ ~HasEvent(d)

\* C2: when the write to a subscribed connection throws during a
\* broadcastEvent call, that connection is removed from the registry, and
\* every other subscribed connection whose write does not throw still gets
\* its event frame in the same call.
C2_WriteFailureIsolated ==
  [][BroadcastStep =>
       \A f \in DOMAIN clients :
          (/\ chan[f] = "broken"
           /\ Subscribed(clients[f].subscriptions, lastBroadcast'.collection,
                         lastBroadcast'.record.id))
          => /\ f \notin DOMAIN clients'
             /\ f \in DOMAIN closed' /\ closed'[f] = "write"
             /\ \A c \in DOMAIN clients \ {f} :
                   (/\ chan[c] # "broken"
                    /\ Subscribed(clients[c].subscriptions, lastBroadcast'.collection,
                                  lastBroadcast'.record.id))
                   => c \in DOMAIN clients' /\ EventWritten(c)]_vars

\* The first connection was dropped by a throwing write of a broadcast and
\* the second one, registered after it, holds the event of that broadcast.
C2_Witness ==
  /\ broadcasts = 1
  /\ 1 \in DOMAIN closed /\ closed[1] = "write"
  /\ 2 \in DOMAIN clients /\ HasEvent(2)

\* The step is a POST /api/realtime whose status, clientId or list differs
\* from the request before it.
SubscriptionRequestStep == response' # response

\* C6: a subscription update of a registered connection makes its set
\* exactly the posted topics (nothing of the old set is kept) and touches no
\* other connection; for an unknown clientId the response is 404 and the
\* registry is unchanged; a broadcast sends nothing to a connection whose
\* current set holds no matching topic.
C6_SubscriptionsReplaced ==
  [][/\ (SubscriptionRequestStep /\ response'.status = 204) =>
          /\ response'.clientId \in DOMAIN clients
          /\ DOMAIN clients' = DOMAIN clients
          /\ clients'[response'.clientId].subscriptions = SetOf(response'.subscriptions)
          /\ \A c \in DOMAIN clients \ {response'.clientId} : clients'[c] = clients[c]
     /\ (SubscriptionRequestStep /\ response'.clientId # 0
           /\ response'.clientId \notin DOMAIN clients) =>
          /\ response'.status = 404
          /\ clients' = clients
     /\ BroadcastStep =>
          \A c \in DOMAIN clients :
             (\A sub \in clients[c].subscriptions :
                 /\ ~NamesTopic(sub, WildcardTopic(lastBroadcast'.collection))
                 /\ ~NamesTopic(sub, SpecificTopic(lastBroadcast'.collection,
                                                   lastBroadcast'.record.id)))
             => stream'[c] = stream[c]]_vars

\* A connection that got an event under the wildcard topic has replaced its
\* subscriptions by "posts/y" only, a second broadcast for record x has
\* passed it by, and a request for an unknown client id was answered 404.
C6_Witness ==
  /\ broadcasts = 2
  /\ lastBroadcast.collection = posts /\ lastBroadcast.record.id = <<"x">>
  /\ response.status = 404
  /\ \E c \in DOMAIN clients :
       /\ clients[c].subscriptions = { posts \o <<"/", "y">> }
       /\ Len(SelectSeq(stream[c], LAMBDA f : f.kind = "event")) = 1

HasHeartbeat(c) == \E i \in DOMAIN stream[c] : stream[c][i].kind = "heartbeat"

\* C7: a connection removed from the registry stays removed: its id is never
\* in the registry again, no broadcast and no sweep writes to its stream, and
\* a subscription update naming its id is answered 404.
C7_ClosedIsTerminal ==
  [][\A c \in DOMAIN closed :
        /\ c \notin DOMAIN clients
        /\ c \notin DOMAIN clients'
        /\ c \in DOMAIN closed' /\ closed'[c] = closed[c]
        /\ stream'[c] = stream[c]
        /\ (SubscriptionRequestStep /\ response'.clientId = c) => response'.status = 404]_vars

\* The first connection is closed; after that a second one was registered,
\* has been sent an event and a keep-alive, and a subscription update for the
\* closed id was answered 404.
C7_Witness ==
  /\ 1 \in DOMAIN closed
  /\ 2 \in DOMAIN clients /\ HasEvent(2) /\ HasHeartbeat(2)
  /\ response.status = 404 /\ response.clientId = 1

\* The connect frame is complete in the first n frames of the stream of c.
ConnectComplete(c, n) ==
  \/ n >= 1 /\ stream[c][1] = ConnectFrame
  \/ n >= 4 /\ \A j \in 1..4 : stream[c][j] = ConnectLine(j)

\* C8: on every stream, no keep-alive and no event frame is written before the
\* connect frame or between its lines.
C8_ConnectFrameFirst ==
  \A c \in ClientIds :
     \A i \in DOMAIN stream[c] :
        stream[c][i].kind # "connect" => ConnectComplete(c, i - 1)

\* The step is a run of the sweep callback.
SweepStep == sweepDue /\ ~sweepDue' /\ heartbeatInterval'

\* C9: in every sweep, a registered connection within the stale threshold
\* whose keep-alive write succeeds gets the keep-alive frame and has its
\* last-activity set to the sweep time; a connection whose channel takes every
\* write is not removed by a sweep.
C9_SweepRefreshesLastActive ==
  [][SweepStep =>
       \A c \in DOMAIN clients :
          /\ (now - clients[c].lastActive <= StaleTimeout /\ ~WriteThrows(c)) =>
                /\ c \in DOMAIN clients'
                /\ stream'[c] = Append(stream[c], HeartbeatFrame)
                /\ clients'[c].lastActive = now
          /\ chan[c] = "ok" => c \in DOMAIN clients']_vars

\* C10: after a sweep has run, no connection whose channel has been dead for
\* longer than the stale threshold is still in the registry.
C10_DeadConnectionSwept ==
  \A c \in DOMAIN clients :
     (heartbeatInterval /\ ~sweepDue /\ deadSince[c] # -1)
     => now - deadSince[c] <= StaleTimeout

\* No request is between two of its steps.
AllAnswered == \A r \in Requests : pc[r] \in {"idle", "done"}

\* The event frames on the stream of the connection subscribed to posts/*.
Delivered == SelectSeq(stream[1], LAMBDA f : f.kind = "event")

\* The p-th broadcastEvent call was made for the k-th committed write and its
\* frame is the p-th event frame of the subscriber.
EventOfCommit(p, k) ==
  /\ p \in DOMAIN sent /\ p \in DOMAIN Delivered
  /\ sent[p].req = commits[k].req
  /\ sent[p].action = commits[k].action /\ sent[p].record.id = commits[k].id
  /\ Delivered[p].action = commits[k].action /\ Delivered[p].record.id = commits[k].id

\* The k-th committed write is of a records endpoint and its request body
\* carries no id.
PlainEndpointCommit(k) ==
  /\ req[commits[k].req].method # "BATCH"
  /\ "id" \notin DOMAIN req[commits[k].req].body

\* C3: once the requests are answered, for any two committed writes of the
\* records endpoints to the same record (already for those whose bodies carry
\* no id), the connection subscribed to posts/* holds the event frame of the
\* earlier write before the event frame of the later one.
C3_EventsInCommitOrder ==
  AllAnswered =>
    \A i, j \in DOMAIN commits :
       (/\ i < j
        /\ commits[i].id = commits[j].id
        /\ PlainEndpointCommit(i)
        /\ PlainEndpointCommit(j))
       => \E p, q \in DOMAIN sent : p < q /\ EventOfCommit(p, i) /\ EventOfCommit(q, j)

\* C4: once the requests are answered, every committed write, of a batch
\* item or of a records endpoint (already for those whose bodies carry no
\* id), has had its broadcastEvent call with the write's action and record id.
C4_EveryMutationBroadcast ==
  AllAnswered =>
    \A k \in DOMAIN commits :
       (req[commits[k].req].method = "BATCH" \/ PlainEndpointCommit(k)) =>
       \E p \in DOMAIN sent :
          /\ sent[p].req = commits[k].req
          /\ sent[p].action = commits[k].action
          /\ sent[p].record.id = commits[k].id

\* The step is a broadcastEvent call of a DELETE handler.
DeleteBroadcastStep ==
  /\ Len(sent') = Len(sent) + 1
  /\ sent'[Len(sent')].action = "delete"

EventsOf(log, r) == {p \in DOMAIN log : log[p].req = r}

\* C5: a DELETE request reads the row in its first step and keeps what it
\* read; its DELETE statement runs after the read and leaves no row with the
\* id in the table; its broadcast is a step after its DELETE statement, and
\* the broadcast record and the frame on the subscriber's stream are the row
\* as read (with collectionName); a DELETE request that read a row has made
\* exactly one broadcast when it is answered, and none before its last step.
C5_DeleteBroadcastsAfterDelete ==
  [][\A r \in Requests :
        /\ (pc[r] = "idle" /\ pc'[r] # "idle" /\ req'[r].method = "DELETE") =>
              /\ pc'[r] = "selected"
              /\ sel'[r] = IF req'[r].id \in DOMAIN db THEN Found(db[req'[r].id]) ELSE NoRow
              /\ db' = db
        /\ (req[r].method = "DELETE") =>
              /\ sel'[r] = sel[r]
              /\ (pc[r] = "selected" /\ pc'[r] # pc[r]) =>
                    /\ pc'[r] = "deleted"
                    /\ req[r].id \notin DOMAIN db'
                    /\ sent' = sent
              /\ (DeleteBroadcastStep /\ sent'[Len(sent')].req = r) =>
                    /\ pc[r] = "deleted" /\ pc'[r] = "done"
                    /\ sel[r].found
                    /\ sent'[Len(sent')].record = WithCollectionName(sel[r].row, posts)
                    /\ stream'[1] = Append(stream[1],
                                           EventFrame(WildcardTopic(posts), "delete",
                                                      WithCollectionName(sel[r].row, posts)))
              /\ pc'[r] # "done" => EventsOf(sent', r) = {}
              /\ pc'[r] = "done" =>
                    Cardinality(EventsOf(sent', r)) = IF sel[r].found THEN 1 ELSE 0]_vars

\* A DELETE request for record x, the row having been updated to title b
\* before it, is answered 204: the row is gone and the subscriber holds a
\* delete frame carrying the row with title b.
C5_Witness ==
  \E r \in Requests :
     /\ req[r].method = "DELETE" /\ req[r].id = <<"x">> /\ pc[r] = "done"
     /\ resp[r].status = 204
     /\ <<"x">> \notin DOMAIN db
     /\ \E p \in DOMAIN Delivered :
           /\ Delivered[p].action = "delete"
           /\ Delivered[p].record = [id |-> <<"x">>, created |-> 0, updated |-> 0,
                                     title |-> "b", collectionName |-> posts]

\* The step is a call of destroy(): it clears the timer or closes connections.
DestroyStep ==
  \/ heartbeatInterval /\ ~heartbeatInterval'
  \/ \E c \in DOMAIN closed' \ DOMAIN closed : closed'[c] = "destroy"

\* C11: a destroy() step leaves the registry empty, whatever it held, and the
\* timer cleared with no callback pending; once the timer is cleared it stays
\* cleared and no step is a sweep: no keep-alive frame is written and no
\* connection is closed as stale.
C11_DestroyStopsSweep ==
  [][/\ DestroyStep =>
          /\ DOMAIN clients' = {}
          /\ DOMAIN clients \subseteq DOMAIN closed'
          /\ ~heartbeatInterval' /\ ~sweepDue'
     /\ ~heartbeatInterval =>
          /\ ~heartbeatInterval' /\ ~sweepDue'
          /\ \A c \in ClientIds :
                stream'[c] # stream[c] => stream'[c][Len(stream'[c])] # HeartbeatFrame
          /\ \A c \in DOMAIN closed' \ DOMAIN closed : closed'[c] # "stale"]_vars

\* destroy() closed a connection that held a keep-alive of an earlier sweep;
\* a connection opened after it has been registered for a timer period or
\* more and has no keep-alive frame.
C11_Witness ==
  /\ ~heartbeatInterval
  /\ \E d \in DOMAIN closed : closed[d] = "destroy" /\ HasHeartbeat(d)
  /\ \E c \in DOMAIN clients :
        now - clients[c].lastActive >= HeartbeatPeriod /\ ~HasHeartbeat(c)

EventFrames(c) == SelectSeq(stream[c], LAMBDA f : f.kind = "event")

\* C12: a broadcastEvent call appends at most one frame to each stream; a
\* connection that is subscribed and whose write does not throw gets exactly
\* one, also when it holds both the wildcard and the specific topic, and the
\* frame's event name is the wildcard topic if one of its strings names the
\* wildcard topic, otherwise the specific topic.
C12_OneFramePerBroadcast ==
  [][BroadcastStep =>
       LET collection == lastBroadcast'.collection
           recordId == lastBroadcast'.record.id
       IN \A c \in DOMAIN clients :
            /\ Len(stream'[c]) <= Len(stream[c]) + 1
            /\ (Subscribed(clients[c].subscriptions, collection, recordId)
                  /\ chan[c] # "broken") =>
                  /\ EventWritten(c)
                  /\ stream'[c][Len(stream'[c])].event =
                       IF \E sub \in clients[c].subscriptions :
                             NamesTopic(sub, collection \o <<"/", "*">>)
                       THEN collection \o <<"/", "*">>
                       ELSE collection \o <<"/">> \o recordId]_vars

\* One broadcast for posts record x: a connection holding posts/x and posts/*
\* has one event frame, named posts/*; a connection holding posts/x?o and no
\* wildcard has one, named posts/x.
C12_Witness ==
  /\ broadcasts = 1
  /\ lastBroadcast.collection = posts /\ lastBroadcast.record.id = <<"x">>
  /\ \E c, d \in DOMAIN clients :
       /\ clients[c].subscriptions = { posts \o <<"/", "x">>, posts \o <<"/", "*">> }
       /\ Len(EventFrames(c)) = 1
       /\ EventFrames(c)[1].event = posts \o <<"/", "*">>
       /\ posts \o <<"/", "x", "?", "o">> \in clients[d].subscriptions
       /\ Len(EventFrames(d)) = 1
       /\ EventFrames(d)[1].event = posts \o <<"/", "x">>

\* Entry e of a batch response is an outcome of the item: a create answers 200
\* with the created record, an update 200 with the record of its id or 404, a
\* delete 204, any other method 400.
OutcomeOf(item, e) ==
  IF item.method = "POST"
  THEN /\ e.status = 200
       /\ e.body.title = item.body.title
       /\ e.body.id \in SetOf(GeneratedIds)
  ELSE IF item.method = "PATCH"
  THEN \/ e.status = 200 /\ e.body.id = item.id
       \/ e.status = 404
  ELSE IF item.method = "DELETE"
  THEN e.status = 204
  ELSE e.status = 400

\* The rows the batch request r has inserted.
CreatesOf(r) ==
  {k \in DOMAIN commits : commits[k].req = r /\ commits[k].action = "create"}

\* C13: an answered batch of n items is answered 200 with n entries, entry i
\* being an outcome of item i; every create item of the batch, also one after
\* an item that failed, has inserted its row.
C13_BatchPerItemResults ==
  \A r \in Requests :
     (req[r].method = "BATCH" /\ pc[r] = "done") =>
        /\ resp[r].status = 200
        /\ Len(resp[r].body) = Len(req[r].items)
        /\ \A i \in DOMAIN req[r].items : OutcomeOf(req[r].items[i], resp[r].body[i])
        /\ Cardinality(CreatesOf(r)) =
             Cardinality({i \in DOMAIN req[r].items : req[r].items[i].method = "POST"})

\* A batch of a create, an update of an id without a row and a second create
\* is answered with 200, 404, 200; both created rows are in the table.
C13_Witness ==
  \E r \in Requests :
     /\ req[r].method = "BATCH" /\ pc[r] = "done"
     /\ Len(resp[r].body) = 3
     /\ resp[r].body[1].status = 200 /\ resp[r].body[1].body.title = "b"
     /\ resp[r].body[2].status = 404
     /\ resp[r].body[3].status = 200 /\ resp[r].body[3].body.title = "c"
     /\ resp[r].body[1].body.id \in DOMAIN db
     /\ resp[r].body[3].body.id \in DOMAIN db
     /\ resp[r].body[1].body.id # resp[r].body[3].body.id

\* C14: an answered batch one of whose items failed (an entry with an error
\* status) has left none of its writes in storage: it has committed no create,
\* update or delete.
C14_BatchAllOrNothing ==
  \A r \in Requests :
     (/\ req[r].method = "BATCH" /\ pc[r] = "done"
      /\ \E i \in DOMAIN resp[r].body : resp[r].body[i].status >= 400)
     => \A k \in DOMAIN commits : commits[k].req # r

\* The step runs the UPDATE of request r (of the PATCH endpoint, or of a
\* batch item) for an id that no row has.
UpdateOfAbsentId(r) ==
  \/ /\ pc[r] = "idle" /\ req'[r].method = "PATCH"
     /\ req'[r].id \notin DOMAIN db
  \/ /\ req'[r].method = "BATCH" /\ idx'[r] # idx[r]
     /\ req'[r].items[idx'[r]].method = "PATCH"
     /\ req'[r].items[idx'[r]].id \notin DOMAIN db

\* The step answers the update of request r, whose SELECT found no row.
UpdateAnsweredNoRow(r) ==
  /\ pc[r] = "selected" /\ ~sel[r].found /\ pc'[r] # pc[r]
  /\ \/ req[r].method = "PATCH"
     \/ req[r].method = "BATCH" /\ req[r].items[idx[r]].method = "PATCH"

\* C15: the UPDATE for an id that no row has changes no row and creates none;
\* the SELECT after it, the id still without a row, finds nothing; the update
\* is then answered 404 (the PATCH response, or the batch entry of the item)
\* with no broadcastEvent call and the table unchanged.
C15_UpdateOfMissingIdIs404 ==
  [][\A r \in Requests :
        /\ UpdateOfAbsentId(r) => (db' = db /\ sent' = sent /\ commits' = commits)
        /\ (pc[r] \in {"updated", "written"} /\ pc'[r] = "selected"
              /\ req[r].id \notin DOMAIN db) => ~sel'[r].found
        /\ UpdateAnsweredNoRow(r) =>
              /\ sent' = sent /\ stream' = stream
              /\ IF req[r].method = "PATCH"
                 THEN resp'[r].status = 404 /\ db' = db
                 ELSE resp'[r].body[Len(resp'[r].body)].status = 404]_vars

\* PATCH of w and a batch with an update item for w are both answered 404; no
\* row has the id w, row x is as it was, and nothing was broadcast.
C15_Witness ==
  /\ \E r \in Requests :
        req[r].method = "PATCH" /\ req[r].id = <<"w">> /\ pc[r] = "done"
        /\ resp[r].status = 404
  /\ \E r \in Requests :
        /\ req[r].method = "BATCH" /\ pc[r] = "done"
        /\ \E i \in DOMAIN req[r].items :
              /\ req[r].items[i].method = "PATCH" /\ req[r].items[i].id = <<"w">>
              /\ resp[r].body[i].status = 404
  /\ <<"w">> \notin DOMAIN db
  /\ db[<<"x">>] = [id |-> <<"x">>, created |-> 0, updated |-> 0, title |-> "a"]
  /\ sent = << >>

\* The step runs the DELETE statement of request r (of the DELETE endpoint, or
\* of a batch item) for an id that no row has.
DeleteOfAbsentId(r) ==
  \/ /\ req[r].method = "DELETE" /\ pc[r] = "selected" /\ pc'[r] = "deleted"
     /\ req[r].id \notin DOMAIN db
  \/ /\ req'[r].method = "BATCH" /\ idx'[r] # idx[r]
     /\ req'[r].items[idx'[r]].method = "DELETE"
     /\ req'[r].items[idx'[r]].id \notin DOMAIN db

\* C16: the DELETE statement for an id that no row has changes no row; a
\* DELETE request whose SELECT found no row is answered without a
\* broadcastEvent call; every DELETE request is answered 204 and every batch
\* delete item gets a 204 entry, whether or not a row had the id, so a second
\* delete of the same id has the response of the first and leaves the table
\* as the first left it.
C16_DeleteOfMissingIdIs204 ==
  [][\A r \in Requests :
        /\ DeleteOfAbsentId(r) => (db' = db /\ commits' = commits /\ sent' = sent)
        /\ (req[r].method = "DELETE" /\ pc[r] = "deleted" /\ pc'[r] = "done") =>
              /\ resp'[r].status = 204 /\ db' = db
              /\ ~sel[r].found => (sent' = sent /\ stream' = stream)
        /\ (req[r].method = "BATCH" /\ pc[r] = "written"
              /\ req[r].items[idx[r]].method = "DELETE" /\ pc'[r] # pc[r]) =>
              /\ Len(resp'[r].body) = idx[r]
              /\ resp'[r].body[idx[r]].status = 204
              /\ sent' = sent]_vars

\* Record x was deleted by one DELETE request, which read the row; a second
\* DELETE of x, which read no row, and a batch delete item for w, which no row
\* has, are answered 204 too; one delete event was broadcast in all.
C16_Witness ==
  /\ \E r, q \in Requests :
        /\ req[r].method = "DELETE" /\ req[r].id = <<"x">> /\ pc[r] = "done"
        /\ sel[r].found /\ resp[r].status = 204
        /\ req[q].method = "DELETE" /\ req[q].id = <<"x">> /\ pc[q] = "done"
        /\ ~sel[q].found /\ resp[q].status = 204
  /\ \E b \in Requests :
        /\ req[b].method = "BATCH" /\ pc[b] = "done"
        /\ req[b].items[1].method = "DELETE" /\ resp[b].body[1].status = 204
  /\ DOMAIN db = {}
  /\ Len(sent) = 1 /\ sent[1].action = "delete"

\* The step is the INSERT of request r: it commits a create.
CreateStep(r) ==
  /\ Len(commits') = Len(commits) + 1
  /\ commits'[Len(commits')].req = r
  /\ commits'[Len(commits')].action = "create"

\* C17: the row a create inserts, whatever the body holds, has the id that
\* generateId returned for the request and created = updated = the time of
\* the request; a create answered 200 returns that record.
C17_CreateAssignsIdAndTimestamps ==
  [][\A r \in Requests :
        /\ CreateStep(r) =>
              LET id == commits'[Len(commits')].id IN
              /\ id = GeneratedIds[generated + 1]
              /\ db'[id].id = id
              /\ db'[id].created = now
              /\ db'[id].updated = now
        /\ (req[r].method = "POST" /\ pc[r] = "selected" /\ pc'[r] = "done"
              /\ resp'[r].status = 200) =>
              /\ resp'[r].body.id = req[r].id
              /\ resp'[r].body.created = resp'[r].body.updated]_vars

\* The step is the UPDATE of request r changing a row: it commits an update.
UpdateStep(r) ==
  /\ Len(commits') = Len(commits) + 1
  /\ commits'[Len(commits')].req = r
  /\ commits'[Len(commits')].action = "update"

\* C18: an UPDATE, whatever the body holds, leaves the set of stored ids as
\* it was, and the row it changed still has the id it was addressed by.
C18_UpdateKeepsId ==
  [][\A r \in Requests :
        UpdateStep(r) =>
           LET id == commits'[Len(commits')].id IN
           /\ DOMAIN db' = DOMAIN db
           /\ db'[id].id = id]_vars

\* The read has been answered.
ReadAnswered == answer # NoAnswer

\* The read has primary records: a List of a table, a GetOne of a row.
HasPrimaryRecords ==
  /\ query.collection \in DOMAIN tables
  /\ query.op = "one" => SelectByIds(query.collection, {query.id}) # {}

\* The path cannot be resolved: the collection its field resolves to is no
\* table (the field is not a relation, or its target does not exist).
Unresolvable(collection, path) ==
  getRelationInfo(collection, path[1].field).collection \notin DOMAIN tables

ResolvablePath(path) == ~Unresolvable(query.collection, path)

AnswerTo(q) == IF q.op = "list" THEN ListAnswer(q) ELSE GetOneAnswer(q)

\* C19: a List or GetOne whose expand expression has a path that cannot be
\* resolved still succeeds: it answers 200 with the primary records, and
\* what it returns is what the expression without that path returns, so
\* the other paths are expanded.
C19_UnresolvablePathIsSkipped ==
  ( /\ ReadAnswered
    /\ HasPrimaryRecords
    /\ \E k \in DOMAIN query.expand : Unresolvable(query.collection, query.expand[k]) )
  => /\ answer.status = 200
     /\ answer = AnswerTo([query EXCEPT !.expand = SelectSeq(query.expand, ResolvablePath)])

\* The records of a successful answer.
AnswerRecords ==
  IF answer.status # 200 THEN << >>
  ELSE IF query.op = "list" THEN answer.items ELSE << answer.record >>

\* The rows of the ids of list that have a row in the table, in the order of list.
MatchingRows(collection, list) ==
  LET InTable(p) == SelectByIds(collection, {<<p>>}) # {}
      matching == SelectSeq(list, InTable)
  IN [k \in DOMAIN matching |-> CHOOSE r \in SelectByIds(collection, {<<matching[k]>>}) : TRUE]

HoldsSingleId(value) ==
  value.t = "string" /\ Len(value.v) = 1 /\ value.v # <<"">>

HoldsIdList(value) ==
  \/ value.t = "array" /\ Len(value.v) > 0
  \/ value.t = "string" /\ Len(value.v) > 1

\* C20: after a path of one field is resolved, a record whose field holds
\* a single id with a matching target row has that row, an object, under
\* expand[field]; a record whose field holds a list of ids has the array of
\* the matching rows, in the order of its list, unmatched ids left out.
C20_ExpandShapeFollowsValue ==
  \A i \in DOMAIN AnswerRecords, k \in DOMAIN query.expand :
     LET record == AnswerRecords[i]
         path == query.expand[k]
         field == path[1].field
         value == Field(record, field)
         target == getRelationInfo(query.collection, field).collection
     IN (Len(path) = 1 /\ target \in DOMAIN tables) =>
          /\ (HoldsSingleId(value) /\ MatchingRows(target, value.v) # << >>)
               => /\ field \in DOMAIN record.expand
                  /\ record.expand[field] =
                       [t |-> "object", v |-> MatchingRows(target, value.v)]
          /\ HoldsIdList(value)
               => /\ field \in DOMAIN record.expand
                  /\ record.expand[field] =
                       [t |-> "array",
                        v |-> MatchingRows(target, SelectSeq(value.v, NonEmptyPiece))]

\* C21: expand is idempotent: a resolve of the expression on a batch that a
\* resolve of the same expression has expanded, the tables unchanged, leaves
\* every expand sub-mapping as it was.
C21_ExpandIdempotent ==
  [][(Len(runs) >= 1 /\ runs[Len(runs)] = "ok" /\ Len(runs') = Len(runs) + 1)
       => /\ runs'[Len(runs')] = "ok"
          /\ \A i \in DOMAIN batch : batch'[i].expand = batch[i].expand]_vars

\* A second resolve of a nested path has run on records that carry nested expansions.
C21_Witness ==
  /\ Len(runs) = 2
  /\ runs[1] = "ok"
  /\ \E i \in DOMAIN batch :
        /\ authorIdField \in DOMAIN batch[i].expand
        /\ \E k \in DOMAIN batch[i].expand[authorIdField].v :
              tags \in DOMAIN batch[i].expand[authorIdField].v[k].expand

\* The rows under expand[field] are in the order of the sort expression.
InSortOrder(rows, sort) ==
  \A a, b \in DOMAIN rows :
     a < b => IF SortDescending(sort)
              THEN Rank(rows[a].row[SortColumn(sort)]) >= Rank(rows[b].row[SortColumn(sort)])
              ELSE Rank(rows[a].row[SortColumn(sort)]) <= Rank(rows[b].row[SortColumn(sort)])

\* C22: a path field(sortField:desc) attaches the related records under
\* expand[field] ordered by sortField descending, a path field(sortField)
\* ordered by sortField ascending.
C22_ExpandFollowsSort ==
  \A i \in DOMAIN AnswerRecords, k \in DOMAIN query.expand :
     LET record == AnswerRecords[i]
         path == query.expand[k]
         field == path[1].field
     IN (Len(path) = 1 /\ path[1].sort # NoSort /\ field \in DOMAIN record.expand)
          => InSortOrder(record.expand[field].v, path[1].sort)

\* The number of placeholders in the text.
RECURSIVE Placeholders(_)
Placeholders(s) ==
  IF s = << >> THEN 0
  ELSE (IF Head(s) = "?" THEN 1 ELSE 0) + Placeholders(Tail(s))

\* The filter has no ~ and no ?= comparison.
NoLikeComparison(f) ==
  \A k \in DOMAIN f.comparisons : f.comparisons[k].operator \notin {<<"~">>, <<"?", "=">>}

\* C23: the SQL the Filter Translator returns has as many placeholders as
\* the value list has values, and the i-th value is the decoded form of the
\* i-th literal of the filter (the quoted string without its escapes and
\* otherwise unchanged, true as 1, null as null, a numeric token as the
\* number), already for the filters without a ~ or ?= comparison.
C23_ValuesMatchPlaceholders ==
  \A f \in FilterInputs :
     (parsed.done /\ FilterText(f) = filterString /\ NoLikeComparison(f))
       => /\ Placeholders(parsed.sql) = Len(parsed.values)
          /\ parsed.values = [k \in DOMAIN f.comparisons |-> f.comparisons[k].literal.value]

\* The value the comparison binds: %value% for ~, %"value"% for ?=, the
\* value itself for the other operators.
BoundValue(c) ==
  IF c.operator = <<"~">> THEN String(<<"%">> \o Text(c.literal.value) \o <<"%">>)
  ELSE IF c.operator = <<"?", "=">>
  THEN String(<<"%", "\"">> \o Text(c.literal.value) \o <<"\"", "%">>)
  ELSE c.literal.value

PlainFilter(f) ==
  \A k \in DOMAIN f.comparisons : f.comparisons[k].literal \in PlainLiterals

\* C24: in a filter of several comparisons the value that is wrapped as
\* %value% is the one bound to the placeholder of the ~ comparison, the one
\* wrapped as %"value"% the one of the ?= comparison, and the values of the
\* other comparisons are unchanged; "status = true && title ~ 'x'" gives
\* [1, "%x%"].
C24_WrappedValueIsOwnValue ==
  \A f \in FilterInputs :
     (parsed.done /\ FilterText(f) = filterString /\ PlainFilter(f))
       => parsed.values = [k \in DOMAIN f.comparisons |-> BoundValue(f.comparisons[k])]

\* "<field> DESC" for a field with a leading dash, "<field> ASC" otherwise
ExpectedTerm(s) ==
  s.field \o (IF s.descending THEN <<" ", "D", "E", "S", "C">> ELSE <<" ", "A", "S", "C">>)

\* C25: the Sort Translator maps each comma-separated field to "<field>
\* DESC" when it has a leading dash and to "<field> ASC" otherwise, joined
\* by ", " in input order, and returns the empty string for empty input.
C25_SortTranslation ==
  \A s \in SortInputs :
     (orderBy.done /\ SortText(s) = sortString)
       => orderBy.sql = Join([k \in DOMAIN s |-> ExpectedTerm(s[k])], <<",", " ">>)

\* The List request that was answered, with a page and a page size in
\* range.
ListAnswered ==
  /\ query.op = "list"
  /\ answer # NoAnswer
  /\ query.page >= 1
  /\ query.perPage > 0

\* The ids of the rows that match the filter of the query, in the order of
\* its sort.
FilteredSorted == 
  LET rows == SelectRows(query.collection, query.filter, query.sort) IN
  [k \in DOMAIN rows |-> rows[k][idField]]

\* C26: a List of page >= 1 and perPage > 0 returns the rows
\* (page-1)*perPage+1 .. page*perPage of the filtered sorted result (fewer at
\* the end, none and no error beyond the last page); totalItems is the
\* number of rows matching the filter and totalPages is
\* ceil(totalItems/perPage), both -1 under skipTotal.  A List whose expand
\* fails is answered 400 whatever the page, and is set aside here.
C26_ListPagination ==
  ListAnswered =>
    LET n == Len(FilteredSorted)
        first == (query.page - 1) * query.perPage + 1
        last == IF query.page * query.perPage < n THEN query.page * query.perPage ELSE n
    IN /\ (query.expand = NoExpand \/ first > n) => answer.status = 200
       /\ answer.status = 200 =>
            /\ Len(answer.items) = (IF last >= first THEN last - first + 1 ELSE 0)
            /\ \A k \in DOMAIN answer.items :
                  answer.items[k].row[idField] = FilteredSorted[first + k - 1]
            /\ IF query.skipTotal
               THEN answer.totalItems = -1 /\ answer.totalPages = -1
               ELSE /\ answer.totalItems = n
                    /\ answer.totalPages * query.perPage >= n
                    /\ (answer.totalPages - 1) * query.perPage < n
                    /\ answer.totalPages >= 0

\* A filtered, sorted List was answered: the two rows that match, in the
\* order of the sort and not of the table, with their count.
C26_Witness ==
  /\ ListAnswered
  /\ query.filter # << >>
  /\ query.sort # << >>
  /\ query.perPage = 2
  /\ answer.status = 200
  /\ Len(answer.items) = 2
  /\ answer.items[1].row[idField] = Str(<<"p3">>)
  /\ answer.items[2].row[idField] = Str(<<"p2">>)
  /\ answer.totalItems = 2
  /\ answer.totalPages = 1

\* A last page that is not full, and a page beyond the last.
C26_Witness_lastPage ==
  /\ ListAnswered
  /\ query.page = 2
  /\ query.perPage = 2
  /\ answer.status = 200
  /\ Len(answer.items) = 1
  /\ answer.totalItems = 3
  /\ answer.totalPages = 2

C26_Witness_beyondLast ==
  /\ ListAnswered
  /\ query.page = 3
  /\ answer.status = 200
  /\ answer.items = << >>
  /\ answer.totalItems = 3
  /\ answer.totalPages = 2

\* The record shows every array field of its row of the collection as the
\* array that was stored.
ShowsArrays(record, collection) ==
  \A j \in DOMAIN tables[collection].rows :
     LET row == tables[collection].rows[j] IN
     row[idField] = record.row[idField] =>
       \A k \in DOMAIN row :
          row[k] = Stored(Arr(row[k].v)) => record.row[k] = Arr(row[k].v)

\* C27: a record created with an array field value A is read back with the
\* field equal to A, by List and by GetOne, and when it is attached to
\* another record as an expanded relation.
C27_ArraysRoundTrip ==
  \A i \in DOMAIN AnswerRecords :
     LET record == AnswerRecords[i] IN
     /\ ShowsArrays(record, query.collection)
     /\ \A field \in DOMAIN record.expand :
          \A k \in DOMAIN record.expand[field].v :
             ShowsArrays(record.expand[field].v[k],
                         getRelationInfo(query.collection, field).collection)

\* the same, of the records of the answer themselves
C27_TopLevelOnly ==
  \A i \in DOMAIN AnswerRecords : ShowsArrays(AnswerRecords[i], query.collection)

\* The relation field of collection c is in table _collections, with a
\* target that is there too.
InMetadata(c, f) ==
  \E k, j \in DOMAIN metadata :
     /\ metadata[k].name = c
     /\ \E n \in DOMAIN metadata[k].fields.v :
          /\ metadata[k].fields.v[n].name = f
          /\ metadata[k].fields.v[n].type = "relation"
          /\ metadata[k].fields.v[n].collectionId = metadata[j].id

\* Entry k of the history is a lookup made while a refresh of an
\* initialized cache awaited its rows.
LookupDuringRefresh(k) ==
  /\ history[k].op \in {"getRelationCollection", "isRelationField"}
  /\ history[k].during = "refresh"
  /\ \E r \in 1..(k - 1) :
       /\ history[r].op = "refresh"
       /\ history[r].initialized
       /\ \A m \in (r + 1)..(k - 1) : history[m].op # "initialize"

\* C28: a lookup that runs while refresh() is in progress, of a relation
\* that exists before and after the refresh, returns its target collection
\* (isRelationField: true), never 'absent'.
C28_LookupDuringRefresh ==
  \A k \in DOMAIN history :
     (LookupDuringRefresh(k) /\ InMetadata(history[k].collection, history[k].field))
       => IF history[k].op = "getRelationCollection"
          THEN history[k].result # << >>
          ELSE history[k].result

\* C29: when initialize has thrown, the cache is uninitialised and holds
\* no entry of the rows processed before the failure.
C29_FailedInitializeKeepsNothing ==
  (history # << >> /\ history[Len(history)].op = "initialize"
                   /\ history[Len(history)].result = "thrown")
    => /\ ~initialized
       /\ DOMAIN collections = {}
       /\ DOMAIN collectionIdToName = {}

\* the same of a load whose SELECT has failed
C29_FailedQueryKeepsNothing ==
  [][QueryFails => (~initialized' /\ collections' = collections
                    /\ collectionIdToName' = collectionIdToName)]_vars

\* The "delete" events of record id that connection c has received.
DeleteEvents(c, id) ==
  { k \in DOMAIN stream[c] :
      /\ stream[c][k].kind = "event"
      /\ stream[c][k].action = "delete"
      /\ stream[c][k].record.id = id }

\* C30: under every interleaving of concurrent Delete requests for the
\* existing record x, the connection subscribed to the wildcard topic of the
\* collection receives at most one "delete" event for x.
C30_OneDeleteEvent ==
  Cardinality(DeleteEvents(1, <<"x">>)) <= 1
====
